---- MODULE Spec2Model ----
(***************************************************************************)
(* Retrieval-and-ranking pipeline of company-buddy (backend/app/services): *)
(* QueryAnalyzer, RerankerService, HybridSearchService and BM25Service.    *)
(*                                                                         *)
(* Text is modelled as a sequence of one-character strings, so lower(),    *)
(* strip(), split() and the regular expressions act on characters.         *)
(* Floating point scores are modelled exactly: complexity scores in        *)
(* tenths, RRF scores as fractions [num, den].                             *)
(***************************************************************************)
EXTENDS Integers, Sequences, FiniteSets, TLC

VARIABLES
    an_pc,       \* QueryAnalyzer.analyze: "call" before the call, "done" after
    an_query,    \* the query string handed to analyze
    an_result,   \* the dict analyze returned (NoResult before the call)
    rr_pc,       \* RerankerService.rerank: "call" before the call, "done" after
    rr_chunks,   \* its chunks argument
    rr_scores,   \* what the cross-encoder predicts for the chunks, in order
    rr_top_k,    \* its top_k argument
    rr_threshold,\* its score_threshold argument
    rr_result,   \* the list it returned
    fu_pc,       \* _reciprocal_rank_fusion: "call" before the call, "done" after
    fu_list_a,   \* its list_a argument (vector results)
    fu_list_b,   \* its list_b argument (BM25 results)
    fu_k,        \* its k argument
    fu_weights,  \* its weights argument
    fu_result,   \* the fused list it returned
    h_pc,              \* position of hybrid_search
    h_enabled,         \* settings.hybrid_search_enabled
    h_top_k,           \* its top_k argument
    h_vector_limit,    \* the limit the vector backend was asked for
    h_bm25_limit,      \* the top_k the lexical index was asked for
    h_vector_results,  \* what the vector backend returned
    h_bm25_results,    \* what the lexical index returned
    h_candidates,      \* candidates_for_reranking
    h_result,          \* what hybrid_search returned
    corpus,            \* BM25Service.corpus
    tokenized_corpus,  \* BM25Service.tokenized_corpus
    metadata,          \* BM25Service.metadata
    bm25,              \* BM25Service.bm25: the scorer and the corpus it was built over
    is_indexed,        \* BM25Service._is_indexed
    search_out,        \* the last completed search call and what it returned
    ix_call,           \* the last index_chunks / add_chunks call and its argument
    w_pc,              \* writer thread: position in index_chunks / add_chunks
    w_batch,           \* writer thread: chunks_with_metadata
    w_writes,          \* writer thread: calls started so far
    r_pc,              \* reader thread: position in search
    r_args,            \* reader thread: query, top_k, tenant_id
    r_scores,          \* reader thread: scores
    r_snapshot,        \* reader thread: the corpus the scores were computed over
    r_i,               \* reader thread: loop index (1-based)
    r_results,         \* reader thread: results
    qw_pc,             \* /ask history load and rewrite_with_context: position
    qw_stored,         \* the messages the conversation holds, oldest first
    qw_query,          \* current_query
    qw_llm,            \* the collaborator the rewriter holds as self.llm
    qw_reply,          \* what a generation call does: return a value or raise
    qw_history,        \* chat_history as /ask loaded it
    qw_out,            \* what rewrite_with_context did and returned
    ct_pc,             \* _extract_citations: "call" before the call, "done" after
    ct_text,           \* the answer text
    ct_result,         \* the list it returned
    ck_pc,             \* SemanticChunker.chunk_text: "call" before the call, "done" after
    ck_config,         \* max_chunk_size, overlap_size, min_chunk_size of the chunker
    ck_text,           \* the text argument
    ck_result,         \* the list of (chunk_text, chunk_metadata) it returned
    dg_documents,      \* the documents table: id -> tenant, content type, file text, status
    dg_hashes,         \* the chunk_hashes table, in insertion order
    dg_points,         \* the points upserted into the vector store
    dg_run,            \* what the last run_document_ingestion did
    ak_pc,             \* POST /ask: "request" before the handler ran, "responded" after
    ak_request,        \* the question, the llm dependency, what retrieval and the model return
    ak_context,        \* context_chunks as they are after the context cap
    ak_calls,          \* the calls of answer_with_context_and_citations that started
    ak_saved,          \* the roles of the messages the handler saved
    ak_response,       \* the HTTP status and the AskResponse
    dc_requests,       \* the upload requests: where each is in upload_document and its response
    dc_tasks,          \* the document ids of the background tasks that wait to run
    dc_next_id         \* the id the documents table gives to its next row

anVars == <<an_pc, an_query, an_result>>
rrVars == <<rr_pc, rr_chunks, rr_scores, rr_top_k, rr_threshold, rr_result>>
fuVars == <<fu_pc, fu_list_a, fu_list_b, fu_k, fu_weights, fu_result>>
hVars == <<h_pc, h_enabled, h_top_k, h_vector_limit, h_bm25_limit,
           h_vector_results, h_bm25_results, h_candidates, h_result>>

ixVars == <<corpus, tokenized_corpus, metadata, bm25, is_indexed>>
thVars == <<w_pc, w_batch, w_writes, r_pc, r_args, r_scores, r_snapshot, r_i, r_results>>

qwVars == <<qw_pc, qw_stored, qw_query, qw_llm, qw_reply, qw_history, qw_out>>

ctVars == <<ct_pc, ct_text, ct_result>>

ckVars == <<ck_pc, ck_config, ck_text, ck_result>>

dgVars == <<dg_documents, dg_hashes, dg_points, dg_run>>

akVars == <<ak_pc, ak_request, ak_context, ak_calls, ak_saved, ak_response>>

\* the documents routes
dcVars == <<dc_requests, dc_tasks, dc_next_id>>

\* the services around the retrieval pipeline
exVars == <<qwVars, ctVars, ckVars, dgVars, akVars, dcVars>>

vars == <<anVars, rrVars, fuVars, hVars, ixVars, search_out, ix_call, thVars, exVars>>

UnchangedPipeline == UNCHANGED <<anVars, rrVars, fuVars, hVars, ixVars, search_out, ix_call, thVars>>

\* an action of one service leaves the others as they are
OnlyQw == UnchangedPipeline /\ UNCHANGED <<ctVars, ckVars, dgVars, akVars, dcVars>>
OnlyCt == UnchangedPipeline /\ UNCHANGED <<qwVars, ckVars, dgVars, akVars, dcVars>>
OnlyCk == UnchangedPipeline /\ UNCHANGED <<qwVars, ctVars, dgVars, akVars, dcVars>>
OnlyDg == UnchangedPipeline /\ UNCHANGED <<qwVars, ctVars, ckVars, akVars, dcVars>>
OnlyAk == UnchangedPipeline /\ UNCHANGED <<qwVars, ctVars, ckVars, dgVars, dcVars>>
OnlyDc == UnchangedPipeline /\ UNCHANGED <<qwVars, ctVars, ckVars, dgVars, akVars>>

NoResult == [query_type |-> "none", recommended_k |-> 0, complexity_score |-> 0]

Min(a, b) == IF a <= b THEN a ELSE b

-----------------------------------------------------------------------------
(* Python str helpers                                                      *)

\* str.lower() on the alphabet the model's texts use
LowerChar(c) ==
    CASE c = "A" -> "a" [] c = "B" -> "b" [] c = "C" -> "c" [] c = "D" -> "d"
      [] c = "E" -> "e" [] c = "L" -> "l" [] c = "O" -> "o" [] c = "Q" -> "q"
      [] c = "X" -> "x" [] c = "É" -> "é"
      [] OTHER -> c

lower(s) == [i \in 1..Len(s) |-> LowerChar(s[i])]

IsSpace(c) == c \in {" ", "\n"}

RECURSIVE lstrip(_)
lstrip(s) == IF s # <<>> /\ IsSpace(Head(s)) THEN lstrip(Tail(s)) ELSE s

RECURSIVE rstrip(_)
rstrip(s) ==
    IF s # <<>> /\ IsSpace(s[Len(s)]) THEN rstrip(SubSeq(s, 1, Len(s) - 1)) ELSE s

strip(s) == rstrip(lstrip(s))

\* str.split(): the maximal runs of non-whitespace characters
RECURSIVE SplitFrom(_, _, _)
SplitFrom(s, cur, acc) ==
    IF s = <<>> THEN (IF cur = <<>> THEN acc ELSE Append(acc, cur))
    ELSE IF IsSpace(Head(s))
         THEN SplitFrom(Tail(s), <<>>, IF cur = <<>> THEN acc ELSE Append(acc, cur))
         ELSE SplitFrom(Tail(s), Append(cur, Head(s)), acc)

split(s) == SplitFrom(s, <<>>, <<>>)

\* str.count(c) for a one-character c
RECURSIVE count(_, _)
count(s, c) ==
    IF s = <<>> THEN 0 ELSE (IF Head(s) = c THEN 1 ELSE 0) + count(Tail(s), c)

\* the literal p occurs in s at position i
MatchAt(s, p, i) == i + Len(p) - 1 <= Len(s) /\ SubSeq(s, i, i + Len(p) - 1) = p

\* re.search of an alternation of literals, (p1|p2|...)
re_search(alts, s) == \E p \in alts : \E i \in 1..Len(s) : MatchAt(s, p, i)

\* re.search of an anchored alternation of literals, ^(p1|p2|...)
re_search_start(alts, s) == \E p \in alts : MatchAt(s, p, 1)

\* \w of a Python str pattern: letters (accented ones too), digits, underscore
IsWordChar(c) ==
    c \in { "a", "b", "c", "d", "e", "f", "g", "h", "i", "j", "k", "l", "m",
            "n", "o", "p", "q", "r", "s", "t", "u", "v", "w", "x", "y", "z",
            "é", "ç", "ã", "á", "í", "ú", "0", "1", "2", "_" }

\* the maximal runs of \w characters
RECURSIVE WordRunsFrom(_, _, _)
WordRunsFrom(s, cur, acc) ==
    IF s = <<>> THEN (IF cur = <<>> THEN acc ELSE Append(acc, cur))
    ELSE IF IsWordChar(Head(s))
         THEN WordRunsFrom(Tail(s), Append(cur, Head(s)), acc)
         ELSE WordRunsFrom(Tail(s), <<>>, IF cur = <<>> THEN acc ELSE Append(acc, cur))

\* len(re.findall(r'\b(w1|w2|...)\b', s)): a match is a whole run of \w
\* characters equal to one of the alternatives
findall_words(alts, s) ==
    LET runs == WordRunsFrom(s, <<>>, <<>>)
    IN  Cardinality({i \in 1..Len(runs) : runs[i] \in alts})

-----------------------------------------------------------------------------
(* QueryAnalyzer (query_analyzer.py)                                       *)

SIMPLE_PATTERNS ==
    << { <<"o"," ","q","u","e"," ","é">>, <<"q","u","e","m"," ","é">>,
         <<"q","u","a","n","d","o">>, <<"o","n","d","e">>, <<"q","u","a","l">> },
       { <<"w","h","a","t"," ","i","s">>, <<"w","h","o"," ","i","s">>,
         <<"w","h","e","n">>, <<"w","h","e","r","e">>, <<"w","h","i","c","h">> } >>

COMPLEX_PATTERNS ==
    << { <<"c","o","m","p","a","r","e">>, <<"d","i","f","e","r","e","n","ç","a">>,
         <<"t","o","d","o","s">>, <<"l","i","s","t","e">>, <<"e","n","u","m","e","r","e">> },
       { <<"c","o","m","p","a","r","e">>, <<"d","i","f","f","e","r","e","n","c","e">>,
         <<"a","l","l">>, <<"l","i","s","t">>, <<"e","n","u","m","e","r","a","t","e">> } >>

PROCEDURAL_PATTERNS ==
    << { <<"c","o","m","o">>, <<"p","a","s","s","o"," ","a"," ","p","a","s","s","o">>,
         <<"p","r","o","c","e","s","s","o">>,
         <<"p","r","o","c","e","d","i","m","e","n","t","o">> },
       { <<"h","o","w">>, <<"s","t","e","p"," ","b","y"," ","s","t","e","p">>,
         <<"p","r","o","c","e","s","s">>, <<"p","r","o","c","e","d","u","r","e">> } >>

classify_query_type_swapped(query) ==
    IF \E i \in 1..Len(SIMPLE_PATTERNS) : re_search_start(SIMPLE_PATTERNS[i], query)
    THEN "simple"
    ELSE IF \E i \in 1..Len(PROCEDURAL_PATTERNS) : re_search(PROCEDURAL_PATTERNS[i], query)
    THEN "procedural"
    ELSE IF \E i \in 1..Len(COMPLEX_PATTERNS) : re_search(COMPLEX_PATTERNS[i], query)
    THEN "complex"
    ELSE "general"

classify_query_type(query) ==
    IF \E i \in 1..Len(SIMPLE_PATTERNS) : re_search_start(SIMPLE_PATTERNS[i], query)
    THEN "simple"
    ELSE IF \E i \in 1..Len(COMPLEX_PATTERNS) : re_search(COMPLEX_PATTERNS[i], query)
    THEN "complex"
    ELSE IF \E i \in 1..Len(PROCEDURAL_PATTERNS) : re_search(PROCEDURAL_PATTERNS[i], query)
    THEN "procedural"
    ELSE "general"

k_map(query_type) ==
    CASE query_type = "simple" -> 3
      [] query_type = "complex" -> 10
      [] query_type = "procedural" -> 7
      [] query_type = "general" -> 5
      [] OTHER -> 5

\* the second branch is an elif: it is taken only when word_count <= 15
get_recommended_k(query_type, query) ==
    LET base_k == k_map(query_type)
        word_count == Len(split(query))
        adjusted == IF word_count > 15 THEN base_k + 2
                    ELSE IF word_count > 25 THEN base_k + 4
                    ELSE base_k
    IN  Min(adjusted, 15)

CONJUNCTIONS ==
    { <<"e">>, <<"o","u">>, <<"m","a","s">>, <<"a","n","d">>, <<"o","r">>,
      <<"b","u","t">> }

COMPARISON_WORDS ==
    { <<"c","o","m","p","a","r","e">>, <<"d","i","f","e","r","e","n","ç","a">>,
      <<"v","e","r","s","u","s">>, <<"v","s">> }

\* the score in tenths, before the final min(score, 1.0)
complexity_sum(query) ==
    LET word_count == Len(split(query))
        conjunctions == findall_words(CONJUNCTIONS, query)
    IN  (IF word_count > 10 THEN 2 ELSE 0)
      + (IF word_count > 20 THEN 2 ELSE 0)
      + (IF count(query, "?") > 1 THEN 2 ELSE 0)
      + Min(conjunctions * 1, 3)
      + (IF re_search(COMPARISON_WORDS, query) THEN 2 ELSE 0)

calculate_complexity_uncapped(query) == complexity_sum(query)

\* complexity score in tenths
calculate_complexity(query) == Min(complexity_sum(query), 10)

analyze(query) ==
    LET query_lower == strip(lower(query))
        query_type == classify_query_type(query_lower)
    IN  [ query_type |-> query_type,
          recommended_k |-> get_recommended_k(query_type, query_lower),
          complexity_score |-> calculate_complexity(query_lower) ]

-----------------------------------------------------------------------------
(* Candidate fragments: the payload dicts the vector backend and the       *)
(* lexical index return.  A key a dict does not hold is Absent.            *)

MaxDocs == 4
MaxList == 2

Absent == -1

DocIds == 1..MaxDocs

\* payloads 1 and 2 are chunks 0 and 1 of document 1, payload 3 is a point
\* known by its id only, later ones hold nothing but their text
Payload(i) ==
    [ document_id |-> IF i <= 2 THEN 1 ELSE Absent,
      chunk_index |-> IF i <= 2 THEN i - 1 ELSE Absent,
      pk          |-> Absent,
      id          |-> IF i = 3 THEN i ELSE Absent,
      text        |-> "text" \o ToString(i) ]

Docs == {Payload(i) : i \in DocIds}

\* the ranked lists of at most n distinct candidates
RankedLists(n) ==
    { s \in UNION {[1..m -> Docs] : m \in 0..n} :
          \A i, j \in 1..Len(s) : i # j => s[i] # s[j] }

\* sorted(s, key=..., reverse=True): the stable descending sort of s, where
\* greater holds the pairs <<i, j>> such that the key of s[i] is greater
\* than the key of s[j]
StableSortDesc(s, greater) ==
    LET pos(i) == 1 + Cardinality({j \in 1..Len(s) : <<j, i>> \in greater})
                    + Cardinality({j \in 1..(i - 1) :
                                      <<j, i>> \notin greater /\ <<i, j>> \notin greater})
    IN  [p \in 1..Len(s) |-> s[CHOOSE i \in 1..Len(s) : pos(i) = p]]

\* s[:n] for n >= 0
Take(s, n) == SubSeq(s, 1, Min(n, Len(s)))

RECURSIVE SelectSeq2(_, _)
SelectSeq2(s, keep) ==
    IF s = <<>> THEN <<>>
    ELSE (IF Head(s) \in keep THEN <<Head(s)>> ELSE <<>>) \o SelectSeq2(Tail(s), keep)

-----------------------------------------------------------------------------
(* RerankerService.rerank (reranker_service.py); scores is what the        *)
(* cross-encoder's predict returns for the (query, text) pairs             *)

RerankGt(s) == {<<i, j>> \in (1..Len(s)) \X (1..Len(s)) : s[i].rerank_score > s[j].rerank_score}

rerank_unfiltered(chunks, scores, top_k, score_threshold) ==
    LET scored == [i \in 1..Len(chunks) |-> [chunk |-> chunks[i], rerank_score |-> scores[i]]]
        reranked == StableSortDesc(scored, RerankGt(scored))
    IN  Take(reranked, top_k)

rerank(chunks, scores, top_k, score_threshold) ==
    IF chunks = <<>> THEN <<>>
    ELSE
    LET scored == [i \in 1..Len(chunks) |-> [chunk |-> chunks[i], rerank_score |-> scores[i]]]
        filtered_chunks ==
            SelectSeq2(scored, {c \in {scored[i] : i \in 1..Len(scored)} :
                                    c.rerank_score >= score_threshold})
        reranked == StableSortDesc(filtered_chunks, RerankGt(filtered_chunks))
    IN  Take(reranked, top_k)

-----------------------------------------------------------------------------
(* HybridSearchService._reciprocal_rank_fusion (hybrid_search_service.py)  *)
(* Scores are exact fractions in lowest terms.                             *)

RECURSIVE Gcd(_, _)
Gcd(a, b) == IF b = 0 THEN a ELSE Gcd(b, a % b)

Frac(n, d) == LET g == Gcd(n, d) IN IF n = 0 THEN [num |-> 0, den |-> 1]
                                    ELSE [num |-> n \div g, den |-> d \div g]
FracAdd(a, b) == Frac(a.num * b.den + b.num * a.den, a.den * b.den)
FracMul(a, b) == Frac(a.num * b.num, a.den * b.den)
FracGt(a, b) == a.num * b.den > b.num * a.den

get_unique_key(doc) ==
    IF doc.document_id # Absent /\ doc.chunk_index # Absent
    THEN ToString(doc.document_id) \o "_" \o ToString(doc.chunk_index)
    ELSE IF doc.pk # Absent THEN ToString(doc.pk)
    ELSE IF doc.id # Absent THEN ToString(doc.id)
    ELSE "hash:" \o doc.text

\* merged_scores and merged_docs as one list of entries in insertion order
KeyIndex(merged, key) ==
    IF \E i \in 1..Len(merged) : merged[i].key = key
    THEN CHOOSE i \in 1..Len(merged) : merged[i].key = key
    ELSE 0

\* one iteration of either loop: list is "vector" or "bm25"
FuseStep(merged, doc, rank, k, weight, list) ==
    LET key == get_unique_key(doc)
        score == FracMul(weight, Frac(1, k + rank + 1))
        at == KeyIndex(merged, key)
    IN  IF at = 0
        THEN Append(merged, [key |-> key, doc |-> doc, source |-> list,
                             rrf_score |-> FracAdd(Frac(0, 1), score)])
        ELSE [merged EXCEPT ![at].rrf_score = FracAdd(@, score),
                            ![at].source = IF list = "bm25" THEN "hybrid" ELSE @]

\* rank is the 0-indexed rank of the head of docs
RECURSIVE FuseList(_, _, _, _, _, _)
FuseList(merged, docs, rank, k, weight, list) ==
    IF docs = <<>> THEN merged
    ELSE FuseList(FuseStep(merged, Head(docs), rank, k, weight, list),
                  Tail(docs), rank + 1, k, weight, list)

RrfGt(s) == {<<i, j>> \in (1..Len(s)) \X (1..Len(s)) : FracGt(s[i].rrf_score, s[j].rrf_score)}

reciprocal_rank_fusion_unsorted(list_a, list_b, k, weights) ==
    FuseList(FuseList(<<>>, list_a, 0, k, weights.vector, "vector"),
             list_b, 0, k, weights.bm25, "bm25")

reciprocal_rank_fusion_offset(list_a, list_b, k, weights) ==
    LET merged == FuseList(FuseList(<<>>, list_a, 1, k, weights.vector, "vector"),
                           list_b, 1, k, weights.bm25, "bm25")
    IN  StableSortDesc(merged, RrfGt(merged))

RrfLt(s) == {<<i, j>> \in (1..Len(s)) \X (1..Len(s)) : FracGt(s[j].rrf_score, s[i].rrf_score)}

reciprocal_rank_fusion_ascending(list_a, list_b, k, weights) ==
    LET merged == FuseList(FuseList(<<>>, list_a, 0, k, weights.vector, "vector"),
                           list_b, 0, k, weights.bm25, "bm25")
    IN  StableSortDesc(merged, RrfLt(merged))

reciprocal_rank_fusion(list_a, list_b, k, weights) ==
    LET merged == FuseList(FuseList(<<>>, list_a, 0, k, weights.vector, "vector"),
                           list_b, 0, k, weights.bm25, "bm25")
    IN  StableSortDesc(merged, RrfGt(merged))

-----------------------------------------------------------------------------
(* Queries handed to analyze                                               *)

MaxFill == 26

RECURSIVE Join(_)
Join(words) ==
    IF words = <<>> THEN <<>>
    ELSE IF Len(words) = 1 THEN words[1]
    ELSE words[1] \o <<" ">> \o Join(Tail(words))

RECURSIVE Fill(_)
Fill(n) == IF n = 0 THEN <<>> ELSE <<(<<"x">>)>> \o Fill(n - 1)

Phrases ==
    { <<"O"," ","q","u","e"," ","é">>,
      <<"Q","u","a","l">>,
      <<"C","o","m","p","a","r","e">>,
      <<"l","i","s","t","e">>,
      <<"C","o","m","o">>,
      <<"p","r","o","c","e","s","s","o">>,
      <<"s","h","o","w">>,
      <<"v","s">>,
      <<"X","?">>,
      <<"f","a","l","e">> }

Heads == {<<>>} \cup {<<p>> : p \in Phrases} \cup {<<p, q>> : p, q \in Phrases}

Tails ==
    { <<>>,
      << <<"a","?">>, <<"b","?">> >>,
      << <<"e">>, <<"b">>, <<"o","u">>, <<"c">>, <<"m","a","s">>, <<"d">>, <<"E">>, <<"f">> >>,
      << <<"e">>, <<"b","?">>, <<"o","u">>, <<"c","?">>, <<"m","a","s">>, <<"é">> >> }

QueryOQueE == <<"O"," ","q","u","e"," ","é"," ","X","?">>

QueryCompare ==
    Join(<< <<"C","o","m","p","a","r","e">>, <<"A">>, <<"c","o","m">>, <<"B">>,
            <<"e">>, <<"l","i","s","t","e">>,
            <<"d","i","f","e","r","e","n","ç","a","s">> >>)

QueryPadded == <<" "," ">> \o QueryOQueE \o <<" ">>

\* the questions of test_procedural_questions
QueryComoFerias ==
    << "C","o","m","o"," ","s","o","l","i","c","i","t","a","r"," ","f","é",
       "r","i","a","s","?" >>

QueryPassoAPasso ==
    << "Q","u","a","l"," ","o"," ","p","a","s","s","o"," ","a"," ","p","a",
       "s","s","o"," ","p","a","r","a"," ","o","n","b","o","a","r","d","i",
       "n","g","?" >>

QueryProcesso ==
    << "Q","u","a","l"," ","é"," ","o"," ","p","r","o","c","e","s","s","o",
       " ","d","e"," ","a","v","a","l","i","a","ç","ã","o","?" >>

Queries ==
    { Join(h \o t \o Fill(n)) : h \in Heads, t \in Tails, n \in 0..MaxFill }
        \cup {QueryOQueE, QueryCompare, QueryPadded}
        \cup {QueryComoFerias, QueryPassoAPasso, QueryProcesso}

AnInit ==
    /\ an_pc = "call"
    /\ an_query \in Queries
    /\ an_result = NoResult

\* the analyzer is not part of the run
AnOff ==
    /\ an_pc = "off"
    /\ an_query = <<>>
    /\ an_result = NoResult

Analyze ==
    /\ an_pc = "call"
    /\ an_result' = analyze(an_query)
    /\ an_pc' = "done"
    /\ UNCHANGED an_query
    /\ UNCHANGED <<rrVars, fuVars, hVars, ixVars, search_out, ix_call, thVars, exVars>>

-----------------------------------------------------------------------------
(* Calls of RerankerService.rerank                                         *)

MaxTopK == 2

RerankScores == {-1, 0, 1}

ScoreLists(n) == [1..n -> RerankScores]

RrInit ==
    /\ rr_pc = "call"
    /\ rr_chunks \in RankedLists(MaxDocs)
    /\ rr_scores \in ScoreLists(Len(rr_chunks))
    /\ rr_top_k \in 0..(MaxTopK + 1)
    /\ rr_threshold \in {0, 1}
    /\ rr_result = <<>>

RrOff ==
    /\ rr_pc = "off"
    /\ rr_chunks = <<>>
    /\ rr_scores = <<>>
    /\ rr_top_k = 0
    /\ rr_threshold = 0
    /\ rr_result = <<>>

Rerank ==
    /\ rr_pc = "call"
    /\ rr_result' = rerank(rr_chunks, rr_scores, rr_top_k, rr_threshold)
    /\ rr_pc' = "done"
    /\ UNCHANGED <<rr_chunks, rr_scores, rr_top_k, rr_threshold>>
    /\ UNCHANGED <<anVars, fuVars, hVars, ixVars, search_out, ix_call, thVars, exVars>>

-----------------------------------------------------------------------------
(* Calls of _reciprocal_rank_fusion                                        *)

RRF_K == 60

WeightValues == {Frac(0, 1), Frac(1, 2), Frac(1, 1)}

DefaultWeights == [vector |-> Frac(1, 2), bm25 |-> Frac(1, 2)]

FuInit ==
    /\ fu_pc = "call"
    /\ fu_list_a \in RankedLists(MaxList)
    /\ fu_list_b \in RankedLists(MaxList)
    /\ fu_k \in {1, RRF_K}
    /\ fu_weights \in [vector : WeightValues, bm25 : WeightValues]
    /\ fu_result = <<>>

FuOff ==
    /\ fu_pc = "off"
    /\ fu_list_a = <<>>
    /\ fu_list_b = <<>>
    /\ fu_k = RRF_K
    /\ fu_weights = DefaultWeights
    /\ fu_result = <<>>

Fuse ==
    /\ fu_pc = "call"
    /\ fu_result' = reciprocal_rank_fusion(fu_list_a, fu_list_b, fu_k, fu_weights)
    /\ fu_pc' = "done"
    /\ UNCHANGED <<fu_list_a, fu_list_b, fu_k, fu_weights>>
    /\ UNCHANGED <<anVars, rrVars, hVars, ixVars, search_out, ix_call, thVars, exVars>>

-----------------------------------------------------------------------------
(* HybridSearchService.hybrid_search, one step per call it makes.  The     *)
(* calls are synchronous: the function is blocked while a call is out.     *)

\* two result lists that hold five candidates between them: fused, they
\* are more than 4 * top_k candidates when top_k is 1
WideListA == <<Payload(1), Payload(3), Payload(5)>>
WideListB == <<Payload(2), Payload(4)>>

\* what a backend can return to hybrid_search
BackendResults == RankedLists(MaxList) \cup {WideListA, WideListB}

\* initial_k = top_k * 4
initial_k(top_k) == top_k * 4

\* the pool cut to top_k before the reranker sees it
candidates_for_reranking_cut_to_top_k(fused_results, top_k) == Take(fused_results, top_k)

\* candidates_for_reranking = fused_results[:initial_k]
candidates_for_reranking(fused_results, top_k) == Take(fused_results, initial_k(top_k))

HInit ==
    /\ h_pc = "start"
    /\ h_enabled \in BOOLEAN
    /\ h_top_k \in 1..MaxTopK
    /\ h_vector_limit = 0
    /\ h_bm25_limit = 0
    /\ h_vector_results = <<>>
    /\ h_bm25_results = <<>>
    /\ h_candidates = <<>>
    /\ h_result = <<>>

HOff ==
    /\ h_pc = "off"
    /\ h_enabled = TRUE
    /\ h_top_k = 0
    /\ h_vector_limit = 0
    /\ h_bm25_limit = 0
    /\ h_vector_results = <<>>
    /\ h_bm25_results = <<>>
    /\ h_candidates = <<>>
    /\ h_result = <<>>

\* self.qdrant.search(...) is called: limit is top_k when hybrid mode is
\* disabled and initial_k = top_k * 4 otherwise
HVectorCall ==
    /\ h_pc = "start"
    /\ h_vector_limit' = IF h_enabled THEN initial_k(h_top_k) ELSE h_top_k
    /\ h_pc' = "vector_wait"
    /\ UNCHANGED <<h_enabled, h_top_k, h_bm25_limit, h_vector_results,
                   h_bm25_results, h_candidates, h_result>>
    /\ UNCHANGED <<anVars, rrVars, fuVars, ixVars, search_out, ix_call, thVars, exVars>>

\* the vector backend returns at most limit payloads; with hybrid mode
\* disabled they are returned as they are
HVectorReturn ==
    /\ h_pc = "vector_wait"
    /\ \E r \in BackendResults :
          /\ Len(r) <= h_vector_limit
          /\ h_vector_results' = r
          /\ h_result' = IF h_enabled THEN h_result ELSE r
    /\ h_pc' = IF h_enabled THEN "vector_done" ELSE "done"
    /\ UNCHANGED <<h_enabled, h_top_k, h_vector_limit, h_bm25_limit,
                   h_bm25_results, h_candidates>>
    /\ UNCHANGED <<anVars, rrVars, fuVars, ixVars, search_out, ix_call, thVars, exVars>>

\* self.bm25.search(...) is called, after the vector search has returned
HBM25Call ==
    /\ h_pc = "vector_done"
    /\ h_bm25_limit' = initial_k(h_top_k)
    /\ h_pc' = "bm25_wait"
    /\ UNCHANGED <<h_enabled, h_top_k, h_vector_limit, h_vector_results,
                   h_bm25_results, h_candidates, h_result>>
    /\ UNCHANGED <<anVars, rrVars, fuVars, ixVars, search_out, ix_call, thVars, exVars>>

HBM25Return ==
    /\ h_pc = "bm25_wait"
    /\ \E r \in BackendResults :
          /\ Len(r) <= h_bm25_limit
          /\ h_bm25_results' = r
    /\ h_pc' = "bm25_done"
    /\ UNCHANGED <<h_enabled, h_top_k, h_vector_limit, h_bm25_limit,
                   h_vector_results, h_candidates, h_result>>
    /\ UNCHANGED <<anVars, rrVars, fuVars, ixVars, search_out, ix_call, thVars, exVars>>

\* fusion, the cut to initial_k, and the call of the reranker
HFuse ==
    /\ h_pc = "bm25_done"
    /\ h_candidates' =
          candidates_for_reranking(
              reciprocal_rank_fusion(h_vector_results, h_bm25_results, RRF_K,
                                     DefaultWeights),
              h_top_k)
    /\ h_pc' = "rerank_wait"
    /\ UNCHANGED <<h_enabled, h_top_k, h_vector_limit, h_bm25_limit,
                   h_vector_results, h_bm25_results, h_result>>
    /\ UNCHANGED <<anVars, rrVars, fuVars, ixVars, search_out, ix_call, thVars, exVars>>

\* the reranker scores the candidates and hybrid_search returns its list
HRerankReturn ==
    /\ h_pc = "rerank_wait"
    /\ \E scores \in ScoreLists(Len(h_candidates)) :
          h_result' = rerank(h_candidates, scores, h_top_k, 0)
    /\ h_pc' = "done"
    /\ UNCHANGED <<h_enabled, h_top_k, h_vector_limit, h_bm25_limit,
                   h_vector_results, h_bm25_results, h_candidates>>
    /\ UNCHANGED <<anVars, rrVars, fuVars, ixVars, search_out, ix_call, thVars, exVars>>

HNext ==
    \/ HVectorCall
    \/ HVectorReturn
    \/ HBM25Call
    \/ HBM25Return
    \/ HFuse
    \/ HRerankReturn

-----------------------------------------------------------------------------
(* BM25Service (bm25_service.py)                                           *)

MaxBatch == 1
MaxCorpus == 3
MaxWrites == 4

IsAsciiAlnum(c) ==
    c \in { "a", "b", "c", "d", "e", "f", "g", "h", "i", "j", "k", "l", "m",
            "n", "o", "p", "q", "r", "s", "t", "u", "v", "w", "x", "y", "z",
            "0", "1", "2" }

\* re.sub(r'[^a-z0-9\s]', ' ', text)
sub_non_alnum(text) ==
    [i \in 1..Len(text) |->
        IF IsAsciiAlnum(text[i]) \/ IsSpace(text[i]) THEN text[i] ELSE " "]

tokenize(text) == split(sub_non_alnum(lower(text)))

\* the chunk dicts handed to index_chunks / add_chunks: a text and, when the
\* caller tags the chunk, a tenant_id
TenantIds == {1, 2}

Chunks ==
    { [text |-> <<"a">>, tenant_id |-> 1],
      [text |-> <<"a", "-", "B">>, tenant_id |-> 1],
      [text |-> <<"a", "-", "B">>, tenant_id |-> 2],
      [text |-> <<"a", "-", "B">>, tenant_id |-> Absent],
      [text |-> <<"-">>, tenant_id |-> 1] }

Batches == UNION {[1..n -> Chunks] : n \in 0..MaxBatch}

SearchQueries == { <<"a">>, <<"B">>, <<"c">> }

\* BM25Okapi(tokenized): the scorer computes its statistics (document
\* count, lengths, term frequencies, idf) from the corpus when it is built
\* and keeps them; `over` stands for those statistics
BM25Okapi(tokenized) == [built |-> TRUE, over |-> tokenized]

NoBM25 == [built |-> FALSE, over |-> <<>>]

\* occurrences of token in tokens
RECURSIVE Occurrences(_, _)
Occurrences(tokens, token) ==
    IF tokens = <<>> THEN 0
    ELSE (IF Head(tokens) = token THEN 1 ELSE 0) + Occurrences(Tail(tokens), token)

RECURSIVE SumOver(_, _)
SumOver(f, S) ==
    IF S = {} THEN 0
    ELSE LET x == CHOOSE y \in S : TRUE IN f[x] + SumOver(f, S \ {x})

\* the words of the corpus, and the number of documents holding a word
CorpusWords(over) == UNION {{over[i][j] : j \in 1..Len(over[i])} : i \in 1..Len(over)}
\* BM25Okapi(tokenized) raises ZeroDivisionError when no document of the
\* corpus holds a word: _calc_idf divides the sum of the idf values by the
\* number of distinct words
BM25OkapiRaises(tokenized) == CorpusWords(tokenized) = {}

DocFreq(over, word) == Cardinality({i \in 1..Len(over) : Occurrences(over[i], word) > 0})

\* 100 * ln(n), rounded, for the odd n that 2 * (count + 0.5) can be
Ln100(n) ==
    CASE n = 1 -> 0   [] n = 3 -> 110 [] n = 5 -> 161 [] n = 7 -> 195
      [] n = 9 -> 220 [] n = 11 -> 240 [] n = 13 -> 256 [] n = 15 -> 271

\* math.log(corpus_size - freq + 0.5) - math.log(freq + 0.5), in hundredths
RawIdf(over, word) ==
    LET freq == DocFreq(over, word)
    IN  Ln100(2 * (Len(over) - freq) + 1) - Ln100(2 * freq + 1)

\* BM25Okapi._calc_idf: a negative idf is replaced by
\* epsilon * average_idf, epsilon = 0.25
Idf(over, word) ==
    LET words == CorpusWords(over)
        idf_sum == SumOver([w \in words |-> RawIdf(over, w)], words)
    IN  IF word \notin words THEN Frac(0, 1)
        ELSE IF RawIdf(over, word) < 0 THEN Frac(idf_sum, 400 * Cardinality(words))
        ELSE Frac(RawIdf(over, word), 100)

\* q_freq * (k1 + 1) / (q_freq + k1 * (1 - b + b * doc_len / avgdl)) with
\* k1 = 1.5, b = 0.75 and avgdl = total / corpus_size, as an exact fraction
TermWeight(over, i, word) ==
    LET q_freq == Occurrences(over[i], word)
        total == SumOver([d \in 1..Len(over) |-> Len(over[d])], 1..Len(over))
    IN  Frac(20 * q_freq * total,
             8 * q_freq * total + 3 * total + 9 * Len(over[i]) * Len(over))

RECURSIVE TermScore(_, _, _)
TermScore(over, i, query_tokens) ==
    IF query_tokens = <<>> THEN Frac(0, 1)
    ELSE FracAdd(FracMul(Idf(over, Head(query_tokens)),
                         TermWeight(over, i, Head(query_tokens))),
                 TermScore(over, i, Tail(query_tokens)))

\* self.bm25.get_scores(tokenized_query): one score per document of the
\* corpus the scorer was built over
get_scores(scorer, tokenized_query) ==
    [i \in 1..Len(scorer.over) |-> TermScore(scorer.over, i, tokenized_query)]

Positive(score) == FracGt(score, Frac(0, 1))

ResultGt(s) == {<<i, j>> \in (1..Len(s)) \X (1..Len(s)) : FracGt(s[i].score, s[j].score)}

\* the loop of search reads self.metadata[i] for every score when a
\* tenant_id is given, and for every positive score otherwise: IndexError
\* when the list is shorter than the scores
PairRaises(scores, meta, tenant_id) ==
    \E i \in (Len(meta) + 1)..Len(scores) : tenant_id # Absent \/ Positive(scores[i])

\* the loop of search over the scores, an IndexError left aside: entry i of
\* meta is paired with scores[i]
RECURSIVE PairScores(_, _, _, _)
PairScores(scores, meta, tenant_id, i) ==
    IF i > Len(scores) \/ i > Len(meta) THEN <<>>
    ELSE LET doc_tenant == meta[i].tenant_id
             skip == tenant_id # Absent /\ doc_tenant # Absent /\ doc_tenant # tenant_id
         IN  (IF ~skip /\ Positive(scores[i])
              THEN << [chunk |-> meta[i], score |-> scores[i]] >>
              ELSE <<>>)
             \o PairScores(scores, meta, tenant_id, i + 1)

\* search on a quiescent index (no writer in between)
search(query, top_k, tenant_id) ==
    IF ~is_indexed \/ ~bm25.built THEN <<>>
    ELSE LET scores == get_scores(bm25, tokenize(query))
             results == PairScores(scores, metadata, tenant_id, 1)
         IN  Take(StableSortDesc(results, ResultGt(results)), top_k)

NoSearch == [query |-> <<>>, top_k |-> 0, tenant_id |-> Absent, results |-> <<>>, called |-> FALSE]

IxInit ==
    /\ corpus = <<>>
    /\ tokenized_corpus = <<>>
    /\ metadata = <<>>
    /\ bm25 = NoBM25
    /\ is_indexed = FALSE

ThOff ==
    /\ w_pc = "off"
    /\ w_batch = <<>>
    /\ w_writes = 0
    /\ r_pc = "off"
    /\ r_args = NoSearch
    /\ r_scores = <<>>
    /\ r_snapshot = <<>>
    /\ r_i = 0
    /\ r_results = <<>>

\* a call of index_chunks or add_chunks with its argument; op is "raised"
\* for a call that ended with the exception of BM25Okapi
IndexCall(op, chunks_with_metadata) == [op |-> op, chunks |-> chunks_with_metadata]

NoCall == IndexCall("none", <<>>)

IxIdle == IxInit /\ search_out = NoSearch /\ ix_call = NoCall /\ ThOff

UnchangedOthers == UNCHANGED <<anVars, rrVars, fuVars, hVars, exVars>>

\* index_chunks: an empty list returns early and leaves the index as it
\* is; when BM25Okapi raises, the three lists are already assigned and the
\* scorer and the flag are not
index_chunks(chunks_with_metadata) ==
    IF chunks_with_metadata = <<>>
    THEN UNCHANGED ixVars
    ELSE /\ corpus' = [i \in 1..Len(chunks_with_metadata) |-> chunks_with_metadata[i].text]
         /\ metadata' = chunks_with_metadata
         /\ tokenized_corpus' = [i \in 1..Len(corpus') |-> tokenize(corpus'[i])]
         /\ IF BM25OkapiRaises(tokenized_corpus')
            THEN UNCHANGED <<bm25, is_indexed>>
            ELSE /\ bm25' = BM25Okapi(tokenized_corpus')
                 /\ is_indexed' = TRUE

\* add_chunks: the three lists are extended before the scorer is rebuilt
add_chunks(chunks_with_metadata) ==
    IF chunks_with_metadata = <<>>
    THEN UNCHANGED ixVars
    ELSE LET new_corpus == [i \in 1..Len(chunks_with_metadata) |-> chunks_with_metadata[i].text]
             new_tokenized == [i \in 1..Len(new_corpus) |-> tokenize(new_corpus[i])]
         IN  /\ corpus' = corpus \o new_corpus
             /\ metadata' = metadata \o chunks_with_metadata
             /\ tokenized_corpus' = tokenized_corpus \o new_tokenized
             /\ IF BM25OkapiRaises(tokenized_corpus')
                THEN UNCHANGED <<bm25, is_indexed>>
                ELSE /\ bm25' = BM25Okapi(tokenized_corpus')
                     /\ is_indexed' = TRUE

\* index_chunks as one call.  search_out is the value the last call
\* returned, so a call that returns nothing clears it.
IndexChunks ==
    \E chunks_with_metadata \in Batches :
        /\ index_chunks(chunks_with_metadata)
        /\ ix_call' = IndexCall(IF BM25OkapiRaises(tokenized_corpus') /\ chunks_with_metadata # <<>>
                                 THEN "raised" ELSE "index_chunks", chunks_with_metadata)
        /\ search_out' = NoSearch
        /\ UNCHANGED thVars
        /\ UnchangedOthers

\* add_chunks as one call
AddChunks ==
    \E chunks_with_metadata \in Batches :
        /\ Len(corpus) + Len(chunks_with_metadata) <= MaxCorpus
        /\ add_chunks(chunks_with_metadata)
        /\ ix_call' = IndexCall(IF BM25OkapiRaises(tokenized_corpus') /\ chunks_with_metadata # <<>>
                                 THEN "raised" ELSE "add_chunks", chunks_with_metadata)
        /\ search_out' = NoSearch
        /\ UNCHANGED thVars
        /\ UnchangedOthers

\* search raises IndexError
search_raises(query, tenant_id) ==
    /\ is_indexed
    /\ bm25.built
    /\ PairRaises(get_scores(bm25, tokenize(query)), metadata, tenant_id)

\* search as one call; a call that raises returns nothing
Search ==
    \E query \in SearchQueries, top_k \in 1..MaxCorpus, tenant_id \in TenantIds \cup {Absent} :
        /\ search_out' = IF search_raises(query, tenant_id) THEN NoSearch
                          ELSE [query |-> query, top_k |-> top_k, tenant_id |-> tenant_id,
                                results |-> search(query, top_k, tenant_id), called |-> TRUE]
        /\ UNCHANGED <<ixVars, ix_call, thVars>>
        /\ UnchangedOthers

IxNext == IndexChunks \/ AddChunks \/ Search

-----------------------------------------------------------------------------
(* The same service used by two threads, a writer calling index_chunks or  *)
(* add_chunks and a reader calling search.  The class takes no lock, so    *)
(* the threads interleave between the statements of the methods.           *)

ThInit ==
    /\ w_pc = "idle"
    /\ w_batch = <<>>
    /\ w_writes = 0
    /\ r_pc = "idle"
    /\ r_args = NoSearch
    /\ r_scores = <<>>
    /\ r_snapshot = <<>>
    /\ r_i = 0
    /\ r_results = <<>>

rdVars == <<r_pc, r_args, r_scores, r_snapshot, r_i, r_results>>

\* index_chunks(chunks_with_metadata) is called; an empty list returns at once
WIndexStart ==
    /\ w_pc = "idle"
    /\ w_writes < MaxWrites
    /\ \E chunks_with_metadata \in Batches :
          /\ w_batch' = chunks_with_metadata
          /\ w_pc' = IF chunks_with_metadata = <<>> THEN "idle" ELSE "index_corpus"
    /\ w_writes' = w_writes + 1
    /\ UNCHANGED <<ixVars, search_out, ix_call, rdVars>>
    /\ UnchangedOthers

\* self.corpus = [chunk["text"] for chunk in chunks_with_metadata]
WIndexCorpus ==
    /\ w_pc = "index_corpus"
    /\ corpus' = [i \in 1..Len(w_batch) |-> w_batch[i].text]
    /\ w_pc' = "index_metadata"
    /\ UNCHANGED <<tokenized_corpus, metadata, bm25, is_indexed>>
    /\ UNCHANGED <<w_batch, w_writes, search_out, ix_call, rdVars>>
    /\ UnchangedOthers

\* self.metadata = chunks_with_metadata
WIndexMetadata ==
    /\ w_pc = "index_metadata"
    /\ metadata' = w_batch
    /\ w_pc' = "index_tokenized"
    /\ UNCHANGED <<corpus, tokenized_corpus, bm25, is_indexed>>
    /\ UNCHANGED <<w_batch, w_writes, search_out, ix_call, rdVars>>
    /\ UnchangedOthers

\* self.tokenized_corpus = [self._tokenize(text) for text in self.corpus]
WIndexTokenized ==
    /\ w_pc = "index_tokenized"
    /\ tokenized_corpus' = [i \in 1..Len(corpus) |-> tokenize(corpus[i])]
    /\ w_pc' = "build"
    /\ UNCHANGED <<corpus, metadata, bm25, is_indexed>>
    /\ UNCHANGED <<w_batch, w_writes, search_out, ix_call, rdVars>>
    /\ UnchangedOthers

\* add_chunks(chunks_with_metadata) is called; an empty list returns at once
WAddStart ==
    /\ w_pc = "idle"
    /\ w_writes < MaxWrites
    /\ \E chunks_with_metadata \in Batches :
          /\ Len(corpus) + Len(chunks_with_metadata) <= MaxCorpus
          /\ w_batch' = chunks_with_metadata
          /\ w_pc' = IF chunks_with_metadata = <<>> THEN "idle" ELSE "add_corpus"
    /\ w_writes' = w_writes + 1
    /\ UNCHANGED <<ixVars, search_out, ix_call, rdVars>>
    /\ UnchangedOthers

\* self.corpus.extend(new_corpus)
WAddCorpus ==
    /\ w_pc = "add_corpus"
    /\ corpus' = corpus \o [i \in 1..Len(w_batch) |-> w_batch[i].text]
    /\ w_pc' = "add_metadata"
    /\ UNCHANGED <<tokenized_corpus, metadata, bm25, is_indexed>>
    /\ UNCHANGED <<w_batch, w_writes, search_out, ix_call, rdVars>>
    /\ UnchangedOthers

\* self.metadata.extend(chunks_with_metadata)
WAddMetadata ==
    /\ w_pc = "add_metadata"
    /\ metadata' = metadata \o w_batch
    /\ w_pc' = "add_tokenized"
    /\ UNCHANGED <<corpus, tokenized_corpus, bm25, is_indexed>>
    /\ UNCHANGED <<w_batch, w_writes, search_out, ix_call, rdVars>>
    /\ UnchangedOthers

\* self.tokenized_corpus.extend(new_tokenized)
WAddTokenized ==
    /\ w_pc = "add_tokenized"
    /\ tokenized_corpus' = tokenized_corpus \o [i \in 1..Len(w_batch) |-> tokenize(w_batch[i].text)]
    /\ w_pc' = "build"
    /\ UNCHANGED <<corpus, metadata, bm25, is_indexed>>
    /\ UNCHANGED <<w_batch, w_writes, search_out, ix_call, rdVars>>
    /\ UnchangedOthers

\* self.bm25 = BM25Okapi(self.tokenized_corpus), in either method; the
\* method ends here when the constructor raises
WBuild ==
    /\ w_pc = "build"
    /\ IF BM25OkapiRaises(tokenized_corpus)
       THEN /\ w_pc' = "idle"
            /\ UNCHANGED bm25
       ELSE /\ bm25' = BM25Okapi(tokenized_corpus)
            /\ w_pc' = "set_indexed"
    /\ UNCHANGED <<corpus, tokenized_corpus, metadata, is_indexed>>
    /\ UNCHANGED <<w_batch, w_writes, search_out, ix_call, rdVars>>
    /\ UnchangedOthers

\* self._is_indexed = True, and the method returns
WSetIndexed ==
    /\ w_pc = "set_indexed"
    /\ is_indexed' = TRUE
    /\ w_pc' = "idle"
    /\ UNCHANGED <<corpus, tokenized_corpus, metadata, bm25>>
    /\ UNCHANGED <<w_batch, w_writes, search_out, ix_call, rdVars>>
    /\ UnchangedOthers

wrVars == <<w_pc, w_batch, w_writes>>

\* search(query, top_k, tenant_id) is called and tests
\* `not self._is_indexed or not self.bm25`
RStart ==
    /\ r_pc \in {"idle", "raised"}
    /\ \E query \in SearchQueries, tenant_id \in TenantIds \cup {Absent} :
          r_args' = [query |-> query, top_k |-> MaxCorpus, tenant_id |-> tenant_id,
                     results |-> <<>>, called |-> TRUE]
    /\ IF ~is_indexed \/ ~bm25.built
       THEN /\ r_pc' = "idle"
            /\ search_out' = r_args'
       ELSE /\ r_pc' = "score"
            /\ search_out' = NoSearch
    /\ r_scores' = <<>>
    /\ r_snapshot' = <<>>
    /\ r_i' = 0
    /\ r_results' = <<>>
    /\ UNCHANGED <<ixVars, ix_call, wrVars>>
    /\ UnchangedOthers

\* scores = self.bm25.get_scores(tokenized_query)
RScore ==
    /\ r_pc = "score"
    /\ r_scores' = get_scores(bm25, tokenize(r_args.query))
    /\ r_snapshot' = bm25.over
    /\ r_i' = 1
    /\ r_pc' = "loop"
    /\ UNCHANGED <<r_args, r_results, search_out, ix_call>>
    /\ UNCHANGED <<ixVars, ix_call, wrVars>>
    /\ UnchangedOthers

\* the head of one loop iteration: with a tenant_id, self.metadata[i] is
\* read for its tenant tag (IndexError when the list is shorter)
RTenantCheck ==
    /\ r_pc = "loop"
    /\ r_i <= Len(r_scores)
    /\ IF r_args.tenant_id = Absent
       THEN /\ r_pc' = "pair"
            /\ r_i' = r_i
       ELSE IF r_i > Len(metadata)
       THEN /\ r_pc' = "raised"
            /\ r_i' = r_i
       ELSE LET doc_tenant == metadata[r_i].tenant_id
            IN  IF doc_tenant # Absent /\ doc_tenant # r_args.tenant_id
                THEN /\ r_pc' = "loop"
                     /\ r_i' = r_i + 1
                ELSE /\ r_pc' = "pair"
                     /\ r_i' = r_i
    /\ UNCHANGED <<r_args, r_scores, r_snapshot, r_results, search_out, ix_call>>
    /\ UNCHANGED <<ixVars, ix_call, wrVars>>
    /\ UnchangedOthers

\* the rest of the iteration: with a positive score, self.metadata[i] is
\* read again, copied and appended with the score
RPair ==
    /\ r_pc = "pair"
    /\ IF Positive(r_scores[r_i])
       THEN IF r_i > Len(metadata)
            THEN /\ r_pc' = "raised"
                 /\ UNCHANGED <<r_i, r_results>>
            ELSE /\ r_results' = Append(r_results, [chunk |-> metadata[r_i],
                                                    score |-> r_scores[r_i]])
                 /\ r_i' = r_i + 1
                 /\ r_pc' = "loop"
       ELSE /\ r_i' = r_i + 1
            /\ r_pc' = "loop"
            /\ UNCHANGED r_results
    /\ UNCHANGED <<r_args, r_scores, r_snapshot, search_out, ix_call>>
    /\ UNCHANGED <<ixVars, ix_call, wrVars>>
    /\ UnchangedOthers

\* the loop is over: sort, cut to top_k, return
RReturn ==
    /\ r_pc = "loop"
    /\ r_i > Len(r_scores)
    /\ search_out' = [r_args EXCEPT
                         !.results = Take(StableSortDesc(r_results, ResultGt(r_results)),
                                          r_args.top_k)]
    /\ r_pc' = "idle"
    /\ UNCHANGED <<r_args, r_scores, r_snapshot, r_i, r_results>>
    /\ UNCHANGED <<ixVars, ix_call, wrVars>>
    /\ UnchangedOthers

RaceNext ==
    \/ WIndexStart \/ WIndexCorpus \/ WIndexMetadata \/ WIndexTokenized
    \/ WAddStart \/ WAddCorpus \/ WAddMetadata \/ WAddTokenized
    \/ WBuild \/ WSetIndexed
    \/ RStart \/ RScore \/ RTenantCheck \/ RPair \/ RReturn

-----------------------------------------------------------------------------
(* QueryRewriterService (query_rewriter.py) and the history /ask loads for *)
(* it (routes/ask.py).  A message is known by its position in the         *)
(* conversation, which is also its content here.                           *)

MaxStored == 12
MaxPad == 6
HISTORY_LIMIT == 10
MAX_HISTORY_TURNS == 3

\* the rows of the messages table of a conversation holding n messages, in
\* created_at order: user and assistant turns alternate
StoredMessages(n) ==
    [i \in 1..n |-> [role |-> IF i % 2 = 1 THEN "user" ELSE "assistant",
                     content |-> i, created_at |-> i]]

\* .order_by(MessageModel.created_at.asc()).limit(10).all(), then one dict
\* {"role", "content"} per row
load_history(stored) ==
    LET rows == Take(stored, HISTORY_LIMIT)
    IN  [i \in 1..Len(rows) |-> [role |-> rows[i].role, content |-> rows[i].content]]

\* a Python slice s[-n:]; s[-0:] is the whole list
LastN(s, n) ==
    IF n = 0 \/ n >= Len(s) THEN s ELSE SubSeq(s, Len(s) - n + 1, Len(s))

\* msg['role'].upper()
upper_role(role) ==
    CASE role = "user" -> "USER" [] role = "assistant" -> "ASSISTANT" [] OTHER -> role

FOLLOWUP_PRONOUNS ==
    { <<"e","l","e">>, <<"e","l","a">>, <<"i","s","s","o">>, <<"e","s","t","e">>,
      <<"e","s","t","a">>, <<"e","s","s","e">>, <<"e","s","s","a">>,
      <<"a","q","u","e","l","e">>, <<"a","q","u","e","l","a">> }

FOLLOWUP_WORDS ==
    { <<"t","a","m","b","é","m">>, <<"m","e","s","m","o">>, <<"a","q","u","i">>,
      <<"l","á">> }

\* QueryRewriterService._is_followup_question
is_followup_question(query) ==
    LET query_lower == strip(lower(query))
        word_count == Len(split(query_lower))
    IN  \/ word_count <= 5
        \/ findall_words(FOLLOWUP_PRONOUNS, query_lower) > 0
        \/ Len(query_lower) >= 2 /\ query_lower[1] = "e" /\ IsSpace(query_lower[2])
        \/ findall_words(FOLLOWUP_WORDS, query_lower) > 0

\* the collaborators a rewriter can hold: an LLMService (llm_service.py),
\* which defines no generate_raw, or a double that has one
HasGenerateRaw(llm) == llm = "double"

\* no call was made, or the call raised
NoRewrite(current_query, calls, raised) ==
    [result |-> current_query, calls |-> calls, raised |-> raised,
     built |-> FALSE, history_text |-> <<>>]

\* rewrite_with_context with the except clause left out: an exception of
\* the try block leaves the method
rewrite_with_context_uncaught(current_query, conversation_history, max_history_turns, llm, reply) ==
    IF conversation_history = <<>> THEN NoRewrite(current_query, 0, FALSE)
    ELSE IF ~is_followup_question(current_query) THEN NoRewrite(current_query, 0, FALSE)
    ELSE LET recent_history == LastN(conversation_history, max_history_turns * 2)
             history_text == [i \in 1..Len(recent_history) |->
                                 [role |-> upper_role(recent_history[i].role),
                                  content |-> recent_history[i].content]]
             rewritten == strip(reply.text)
         IN  IF ~HasGenerateRaw(llm)
             THEN [result |-> <<>>, calls |-> 0, raised |-> TRUE,
                   built |-> TRUE, history_text |-> history_text]
             ELSE IF reply.kind # "text"
             THEN [result |-> <<>>, calls |-> 1, raised |-> TRUE,
                   built |-> TRUE, history_text |-> history_text]
             ELSE [result |-> IF rewritten # <<>> /\ Len(rewritten) > 5
                              THEN rewritten ELSE current_query,
                   calls |-> 1, raised |-> FALSE,
                   built |-> TRUE, history_text |-> history_text]

\* QueryRewriterService.rewrite_with_context.  The try block calls
\* self.llm.generate_raw(prompt) and strips what it returns; the attribute
\* lookup on an LLMService, a call that raises and a return value that is
\* no string all end in the except clause, which returns current_query.
rewrite_with_context(current_query, conversation_history, max_history_turns, llm, reply) ==
    IF conversation_history = <<>> THEN NoRewrite(current_query, 0, FALSE)
    ELSE IF ~is_followup_question(current_query) THEN NoRewrite(current_query, 0, FALSE)
    ELSE LET recent_history == LastN(conversation_history, max_history_turns * 2)
             history_text == [i \in 1..Len(recent_history) |->
                                 [role |-> upper_role(recent_history[i].role),
                                  content |-> recent_history[i].content]]
             rewritten == strip(reply.text)
         IN  IF ~HasGenerateRaw(llm)
             THEN [result |-> current_query, calls |-> 0, raised |-> FALSE,
                   built |-> TRUE, history_text |-> history_text]
             ELSE IF reply.kind # "text"
             THEN [result |-> current_query, calls |-> 1, raised |-> FALSE,
                   built |-> TRUE, history_text |-> history_text]
             ELSE [result |-> IF rewritten # <<>> /\ Len(rewritten) > 5
                              THEN rewritten ELSE current_query,
                   calls |-> 1, raised |-> FALSE,
                   built |-> TRUE, history_text |-> history_text]

\* the questions handed to the rewriter
RwHeads ==
    { <<>>,
      <<<<"E">>>>,
      <<<<"E","s","t","e">>>>,
      <<<<"x">>, <<"e","l","a","?">>>>,
      <<<<"t","a","m","b","é","m">>>>,
      <<<<"m","e","s","m","o">>>>,
      <<<<"a","q","u","i">>>>,
      <<<<"l","á">>>>,
      <<<<"e","l","e","v","a","d","o","r">>>> }

QueryEstagiarios ==
    << "E"," ","p","a","r","a"," ","e","s","t","a","g","i","á","r","i","o",
       "s","?" >>

QueryPolitica ==
    << "Q","u","a","l"," ","a"," ","p","o","l","í","t","i","c","a"," ","d",
       "e"," ","f","é","r","i","a","s","?" >>

QueryPlano ==
    << "C","o","m","o"," ","f","u","n","c","i","o","n","a"," ","o"," ","p",
       "l","a","n","o"," ","d","e"," ","s","a","ú","d","e","?" >>

RwQueries ==
    { Join(h \o Fill(n)) : h \in RwHeads, n \in 0..MaxPad }
        \cup {QueryEstagiarios, QueryPolitica, QueryPlano}

\* what generate_raw of a double returns
RwTexts ==
    { <<>>,
      <<" "," ","\n">>,
      <<"a","b","c","d","e">>,
      <<"a","b","c","d","e","f">>,
      <<" ","a","b","c","d","e","f","\n">>,
      <<" "," ","a","b","c"," "," ">> }

\* a generation call returns a string, returns None, or raises
RwReplies ==
    { [kind |-> "text", text |-> t] : t \in RwTexts }
        \cup { [kind |-> "none", text |-> <<>>], [kind |-> "raise", text |-> <<>>] }

NoRewriteYet ==
    [result |-> <<>>, calls |-> 0, raised |-> FALSE, built |-> FALSE, history_text |-> <<>>]

QwInit ==
    /\ qw_pc = "start"
    /\ qw_stored \in {StoredMessages(n) : n \in 0..MaxStored}
    /\ qw_query \in RwQueries
    /\ qw_llm \in {"LLMService", "double"}
    /\ qw_reply \in RwReplies
    /\ qw_history = <<>>
    /\ qw_out = NoRewriteYet

\* the rewriter is not part of the run
QwOff ==
    /\ qw_pc = "off"
    /\ qw_stored = <<>>
    /\ qw_query = <<>>
    /\ qw_llm = "LLMService"
    /\ qw_reply = [kind |-> "raise", text |-> <<>>]
    /\ qw_history = <<>>
    /\ qw_out = NoRewriteYet

\* /ask reads the messages of the conversation into chat_history
AskLoadHistory ==
    /\ qw_pc = "start"
    /\ qw_history' = load_history(qw_stored)
    /\ qw_pc' = "loaded"
    /\ UNCHANGED <<qw_stored, qw_query, qw_llm, qw_reply, qw_out>>
    /\ OnlyQw

\* rewrite_with_context(question, chat_history)
Rewrite ==
    /\ qw_pc = "loaded"
    /\ qw_out' = rewrite_with_context(qw_query, qw_history, MAX_HISTORY_TURNS,
                                      qw_llm, qw_reply)
    /\ qw_pc' = "done"
    /\ UNCHANGED <<qw_stored, qw_query, qw_llm, qw_reply, qw_history>>
    /\ OnlyQw

QwNext == AskLoadHistory \/ Rewrite

-----------------------------------------------------------------------------

-----------------------------------------------------------------------------
(* LLMService._extract_citations (llm_service.py)                          *)

MaxText == 5

\* \d of a Python str pattern, for the characters of the modelled texts
IsDigit(c) == c \in {"0", "1", "2", "3", "4", "5", "6", "7", "8", "9"}

DigitValue(c) ==
    CASE c = "0" -> 0 [] c = "1" -> 1 [] c = "2" -> 2 [] c = "3" -> 3 [] c = "4" -> 4
      [] c = "5" -> 5 [] c = "6" -> 6 [] c = "7" -> 7 [] c = "8" -> 8 [] c = "9" -> 9

\* int(m) of a string of digits
RECURSIVE ToInt(_)
ToInt(digits) ==
    IF digits = <<>> THEN 0
    ELSE 10 * ToInt(SubSeq(digits, 1, Len(digits) - 1)) + DigitValue(digits[Len(digits)])

\* the end of the run of digits that starts at position i (i - 1 when there
\* is none)
RECURSIVE DigitsEnd(_, _)
DigitsEnd(text, i) ==
    IF i <= Len(text) /\ IsDigit(text[i]) THEN DigitsEnd(text, i + 1) ELSE i - 1

\* re.findall(r'\[(\d+)\]', text): the groups of the non-overlapping
\* matches, found from left to right
RECURSIVE findall_citations(_, _)
findall_citations(text, i) ==
    IF i > Len(text) THEN <<>>
    ELSE LET e == DigitsEnd(text, i + 1)
         IN  IF text[i] = "[" /\ e >= i + 1 /\ e + 1 <= Len(text) /\ text[e + 1] = "]"
             THEN <<SubSeq(text, i + 1, e)>> \o findall_citations(text, e + 2)
             ELSE findall_citations(text, i + 1)

\* sorted(a set of integers)
RECURSIVE sorted_set(_)
sorted_set(S) ==
    IF S = {} THEN <<>>
    ELSE LET m == CHOOSE x \in S : \A y \in S : x <= y
         IN  <<m>> \o sorted_set(S \ {m})

\* the citations in the order of the text, repeated ones kept
extract_citations_in_order(text) ==
    LET matches == findall_citations(text, 1)
    IN  [i \in 1..Len(matches) |-> ToInt(matches[i])]

\* LLMService._extract_citations
extract_citations(text) ==
    LET matches == findall_citations(text, 1)
    IN  sorted_set({ToInt(matches[i]) : i \in 1..Len(matches)})

CitationChars == {"[", "]", "1", "3", "0", "a"}

\* 'Resposta [1] e [3]... [1]'
TextResposta ==
    << "R","e","s","p","o","s","t","a"," ","[","1","]"," ","e"," ","[","3",
       "]",".",".","."," ","[","1","]" >>

CitationTexts ==
    UNION {[1..n -> CitationChars] : n \in 0..MaxText} \cup {TextResposta}

CtInit ==
    /\ ct_pc = "call"
    /\ ct_text \in CitationTexts
    /\ ct_result = <<>>

\* the extractor is not part of the run
CtOff ==
    /\ ct_pc = "off"
    /\ ct_text = <<>>
    /\ ct_result = <<>>

\* citations = self._extract_citations(answer_text)
ExtractCitations ==
    /\ ct_pc = "call"
    /\ ct_result' = extract_citations(ct_text)
    /\ ct_pc' = "done"
    /\ UNCHANGED ct_text
    /\ OnlyCt

-----------------------------------------------------------------------------
(* SemanticChunker (semantic_chunker.py).  The texts of the model hold no  *)
(* <<<PAGE_n>>> marker, so clean_text is the text and every chunk is on    *)
(* page 1.  content_hash stands for the SHA-256 digest of the chunk text:  *)
(* equal texts have equal hashes, different texts different ones.          *)

MaxLines == 4

\* the least position of a non-empty set of positions
FirstOf(positions) == CHOOSE k \in positions : \A j \in positions : k <= j

\* s.split(c) for a one-character separator, from position i on
RECURSIVE SplitCharFrom(_, _, _, _)
SplitCharFrom(s, c, i, acc) ==
    LET seps == {k \in i..Len(s) : s[k] = c}
    IN  IF seps = {} THEN Append(acc, SubSeq(s, i, Len(s)))
        ELSE SplitCharFrom(s, c, FirstOf(seps) + 1,
                           Append(acc, SubSeq(s, i, FirstOf(seps) - 1)))

split_char(s, c) == SplitCharFrom(s, c, 1, <<>>)

\* sep.join(parts)
RECURSIVE JoinWith(_, _)
JoinWith(parts, sep) ==
    IF parts = <<>> THEN <<>>
    ELSE IF Len(parts) = 1 THEN parts[1]
    ELSE parts[1] \o sep \o JoinWith(Tail(parts), sep)

ParagraphBreak == <<"\n", "\n">>

IsUpperChar(c) ==
    c \in { "A", "B", "C", "D", "E", "F", "G", "H", "I", "J", "K", "L", "M",
            "N", "O", "P", "Q", "R", "S", "T", "U", "V", "W", "X", "Y", "Z",
            "É", "Ç", "Ã", "Á", "Í", "Ú" }
IsLowerChar(c) ==
    c \in { "a", "b", "c", "d", "e", "f", "g", "h", "i", "j", "k", "l", "m",
            "n", "o", "p", "q", "r", "s", "t", "u", "v", "w", "x", "y", "z",
            "é", "ç", "ã", "á", "í", "ú" }

\* str.isupper(): at least one cased character and no lowercase one
isupper(s) ==
    /\ \E i \in 1..Len(s) : IsUpperChar(s[i])
    /\ \A i \in 1..Len(s) : ~IsLowerChar(s[i])

\* the loop of _detect_sections over the lines
RECURSIVE DetectFrom(_, _, _, _, _)
DetectFrom(lines, i, sections, title, text) ==
    IF i > Len(lines)
    THEN IF strip(text) # <<>> THEN Append(sections, [title |-> title, text |-> text])
         ELSE sections
    ELSE LET line == lines[i]
             stripped == strip(line)
         IN  IF stripped = <<>> THEN DetectFrom(lines, i + 1, sections, title, text)
             ELSE IF isupper(stripped) /\ Len(stripped) < 100 /\ Len(stripped) > 3
             THEN DetectFrom(lines, i + 1,
                             IF strip(text) # <<>>
                             THEN Append(sections, [title |-> title, text |-> text])
                             ELSE sections,
                             stripped, <<>>)
             ELSE IF stripped[Len(stripped)] = ":" /\ Len(stripped) < 100 /\ title = <<>>
             THEN DetectFrom(lines, i + 1, sections,
                             SubSeq(stripped, 1, Len(stripped) - 1), text)
             ELSE DetectFrom(lines, i + 1, sections, title, text \o line \o <<"\n">>)

\* SemanticChunker._detect_sections; a title of <<>> is no title
detect_sections(text) ==
    LET sections == DetectFrom(split_char(text, "\n"), 1, <<>>, <<>>, <<>>)
    IN  IF sections = <<>> THEN <<[title |-> <<>>, text |-> text]>> ELSE sections

\* the position of the last newline of the whitespace run that starts at i
RECURSIVE LastNewlineInRun(_, _, _)
LastNewlineInRun(text, i, last) ==
    IF i > Len(text) \/ ~IsSpace(text[i]) THEN last
    ELSE LastNewlineInRun(text, i + 1, IF text[i] = "\n" THEN i ELSE last)

\* re.split(r'\n\s*\n', text), from position i on
RECURSIVE SplitParagraphsFrom(_, _, _)
SplitParagraphsFrom(text, i, acc) ==
    LET breaks == {k \in i..Len(text) :
                      text[k] = "\n" /\ LastNewlineInRun(text, k + 1, 0) > k}
    IN  IF breaks = {} THEN Append(acc, SubSeq(text, i, Len(text)))
        ELSE SplitParagraphsFrom(text, LastNewlineInRun(text, FirstOf(breaks) + 1, 0) + 1,
                                 Append(acc, SubSeq(text, i, FirstOf(breaks) - 1)))

\* [p.strip() for p in parts if p.strip()]
StripNonBlank(parts) ==
    LET kept == SelectSeq(parts, LAMBDA p : strip(p) # <<>>)
    IN  [i \in 1..Len(kept) |-> strip(kept[i])]

\* the end of the whitespace run that starts at position i (i - 1 when
\* there is none)
RECURSIVE SpaceEnd(_, _)
SpaceEnd(text, i) ==
    IF i <= Len(text) /\ IsSpace(text[i]) THEN SpaceEnd(text, i + 1) ELSE i - 1

\* re.split(r'(?<=[.!?])\s+', text), from position i on
RECURSIVE SplitSentencesFrom(_, _, _)
SplitSentencesFrom(text, i, acc) ==
    LET breaks == {k \in i..Len(text) :
                      k > 1 /\ text[k - 1] \in {".", "!", "?"} /\ IsSpace(text[k])}
    IN  IF breaks = {} THEN Append(acc, SubSeq(text, i, Len(text)))
        ELSE SplitSentencesFrom(text, SpaceEnd(text, FirstOf(breaks)) + 1,
                                Append(acc, SubSeq(text, i, FirstOf(breaks) - 1)))

\* SemanticChunker._split_by_sentences
split_by_sentences(text) == StripNonBlank(SplitSentencesFrom(text, 1, <<>>))

\* text.find(" "), 0-based, -1 when there is none
FindSpace(text) ==
    LET spaces == {k \in 1..Len(text) : text[k] = " "}
    IN  IF spaces = {} THEN -1 ELSE FirstOf(spaces) - 1

\* SemanticChunker._get_overlap; full_text[-0:] is the whole text
get_overlap(current_chunk, config) ==
    IF current_chunk = <<>> THEN <<>>
    ELSE LET full_text == JoinWith(current_chunk, ParagraphBreak)
             overlap_text == LastN(full_text, config.overlap_size)
             first_space == FindSpace(overlap_text)
         IN  IF Len(full_text) <= config.overlap_size THEN full_text
             ELSE IF first_space > 0
             THEN strip(SubSeq(overlap_text, first_space + 1, Len(overlap_text)))
             ELSE overlap_text

\* the chunk under construction is closed
Flush(st) ==
    IF st.current_chunk # <<>>
    THEN Append(st.chunks, JoinWith(st.current_chunk, ParagraphBreak))
    ELSE st.chunks

\* the loop of _chunk_section over the sentences of a large paragraph
RECURSIVE ChunkSentences(_, _, _, _)
ChunkSentences(sentences, j, st, config) ==
    IF j > Len(sentences) THEN st
    ELSE LET sentence == sentences[j]
         IN  IF st.current_size + Len(sentence) > config.max_chunk_size
             THEN ChunkSentences(sentences, j + 1,
                                 [chunks |-> Flush(st),
                                  current_chunk |-> <<sentence>>,
                                  current_size |-> Len(sentence)], config)
             ELSE ChunkSentences(sentences, j + 1,
                                 [chunks |-> st.chunks,
                                  current_chunk |-> Append(st.current_chunk, sentence),
                                  current_size |-> st.current_size + Len(sentence)], config)

\* the loop of _chunk_section over the paragraphs
RECURSIVE ChunkParagraphs(_, _, _, _)
ChunkParagraphs(paragraphs, i, st, config) ==
    IF i > Len(paragraphs) THEN st
    ELSE LET paragraph == paragraphs[i]
             para_size == Len(paragraph)
             overlap_text == get_overlap(st.current_chunk, config)
         IN  IF para_size > config.max_chunk_size
             THEN ChunkParagraphs(paragraphs, i + 1,
                      ChunkSentences(split_by_sentences(paragraph), 1,
                                     [chunks |-> Flush(st), current_chunk |-> <<>>,
                                      current_size |-> 0], config),
                      config)
             ELSE IF st.current_size + para_size > config.max_chunk_size
             THEN ChunkParagraphs(paragraphs, i + 1,
                      [chunks |-> Flush(st),
                       current_chunk |-> IF overlap_text # <<>>
                                         THEN <<overlap_text, paragraph>>
                                         ELSE <<paragraph>>,
                       current_size |-> Len(overlap_text) + para_size],
                      config)
             ELSE ChunkParagraphs(paragraphs, i + 1,
                      [chunks |-> st.chunks,
                       current_chunk |-> Append(st.current_chunk, paragraph),
                       current_size |-> st.current_size + para_size],
                      config)

\* SemanticChunker._chunk_section
chunk_section(text, section_title, config) ==
    IF strip(text) = <<>> THEN <<>>
    ELSE LET paragraphs == StripNonBlank(SplitParagraphsFrom(text, 1, <<>>))
             start == IF section_title # <<>>
                      THEN [chunks |-> <<>>,
                            current_chunk |-> << <<"#", "#", " ">> \o section_title \o <<"\n">> >>,
                            current_size |-> Len(section_title) + 4]
                      ELSE [chunks |-> <<>>, current_chunk |-> <<>>, current_size |-> 0]
             st == ChunkParagraphs(paragraphs, 1, start, config)
             chunk_text_ == JoinWith(st.current_chunk, ParagraphBreak)
         IN  IF st.current_chunk # <<>> /\ Len(chunk_text_) >= config.min_chunk_size
             THEN Append(st.chunks, chunk_text_)
             ELSE st.chunks

\* the chunks of the sections, in order, each with its metadata
RECURSIVE ChunkSections(_, _, _)
ChunkSections(sections, i, config) ==
    IF i > Len(sections) THEN <<>>
    ELSE LET section_chunks == chunk_section(sections[i].text, sections[i].title, config)
         IN  [n \in 1..Len(section_chunks) |->
                 [text |-> section_chunks[n],
                  section_title |-> sections[i].title,
                  page_number |-> 1,
                  content_hash |-> section_chunks[n],
                  char_count |-> Len(section_chunks[n])]]
             \o ChunkSections(sections, i + 1, config)

\* SemanticChunker.chunk_text
chunk_text(text, config) ==
    IF text = <<>> \/ strip(text) = <<>> THEN <<>>
    ELSE ChunkSections(detect_sections(text), 1, config)

\* the lines the texts are made of
ChunkerLines ==
    { <<"a","b">>,
      <<"a","b","a","b"," ","a","b">>,
      <<"a","."," ","b",".">>,
      <<"A","A","A","A">>,
      <<"a","b",":">>,
      <<>>,
      <<" ">>,
      <<"a"," ","b">> }

ChunkerTexts ==
    { JoinWith(ls, <<"\n">>) : ls \in UNION {[1..n -> ChunkerLines] : n \in 0..MaxLines} }

\* sizes scaled down from the defaults 1000 / 200 / 100
ChunkerConfigs ==
    { [max_chunk_size |-> 6, overlap_size |-> 2, min_chunk_size |-> 3],
      [max_chunk_size |-> 6, overlap_size |-> 0, min_chunk_size |-> 1],
      [max_chunk_size |-> 10, overlap_size |-> 4, min_chunk_size |-> 5] }

CkInit ==
    /\ ck_pc = "call"
    /\ ck_config \in ChunkerConfigs
    /\ ck_text \in ChunkerTexts
    /\ ck_result = <<>>

\* the chunker is not part of the run
CkOff ==
    /\ ck_pc = "off"
    /\ ck_config = [max_chunk_size |-> 1000, overlap_size |-> 200, min_chunk_size |-> 100]
    /\ ck_text = <<>>
    /\ ck_result = <<>>

\* chunks = chunker.chunk_text(text)
ChunkText ==
    /\ ck_pc = "call"
    /\ ck_result' = chunk_text(ck_text, ck_config)
    /\ ck_pc' = "done"
    /\ UNCHANGED <<ck_config, ck_text>>
    /\ OnlyCk

-----------------------------------------------------------------------------
(* run_document_ingestion (document_ingestion.py).  The module does not    *)
(* import SessionLocal, DocumentModel, ChunkHashModel, DocumentStatus,     *)
(* get_semantic_chunker, EmbeddingService and QdrantService, and binds no  *)
(* logger; the names are read here as the definitions of those names in    *)
(* the repository.  The                                                    *)
(* text of a document is what extract_text_from_pdf / _docx returns for    *)
(* its file.                                                               *)

MaxDocuments == 2

\* get_semantic_chunker(max_chunk_size=1000, overlap_size=200)
ProductionConfig ==
    [max_chunk_size |-> 1000, overlap_size |-> 200, min_chunk_size |-> 100]

TextResumo ==
    << "R","e","s","u","m","o"," ","c","u","r","t","o","." >>

TextFerias ==
    << "F","E","R","I","A","S","\n","O"," ","c","o","l","a","b","o","r","a",
       "d","o","r"," ","t","e","m"," ","d","i","r","e","i","t","o"," ","a",
       " ","t","r","i","n","t","a"," ","d","i","a","s"," ","d","e"," ","f",
       "e","r","i","a","s"," ","p","o","r"," ","a","n","o","."," ","O"," ",
       "c","o","l","a","b","o","r","a","d","o","r"," ","t","e","m"," ","d",
       "i","r","e","i","t","o"," ","a"," ","t","r","i","n","t","a"," ","d",
       "i","a","s"," ","d","e"," ","f","e","r","i","a","s"," ","p","o","r",
       " ","a","n","o","." >>

TextFeriasSaude ==
    << "F","E","R","I","A","S","\n","O"," ","c","o","l","a","b","o","r","a",
       "d","o","r"," ","t","e","m"," ","d","i","r","e","i","t","o"," ","a",
       " ","t","r","i","n","t","a"," ","d","i","a","s"," ","d","e"," ","f",
       "e","r","i","a","s"," ","p","o","r"," ","a","n","o","."," ","O"," ",
       "c","o","l","a","b","o","r","a","d","o","r"," ","t","e","m"," ","d",
       "i","r","e","i","t","o"," ","a"," ","t","r","i","n","t","a"," ","d",
       "i","a","s"," ","d","e"," ","f","e","r","i","a","s"," ","p","o","r",
       " ","a","n","o",".","\n","S","A","U","D","E","\n","O"," ","p","l","a",
       "n","o"," ","d","e"," ","s","a","u","d","e"," ","c","o","b","r","e",
       " ","c","o","n","s","u","l","t","a","s"," ","e"," ","e","x","a","m",
       "e","s"," ","d","e"," ","t","o","d","o"," ","c","o","l","a","b","o",
       "r","a","d","o","r","."," ","O"," ","p","l","a","n","o"," ","d","e",
       " ","s","a","u","d","e"," ","c","o","b","r","e"," ","c","o","n","s",
       "u","l","t","a","s"," ","e"," ","e","x","a","m","e","s"," ","d","e",
       " ","t","o","d","o"," ","c","o","l","a","b","o","r","a","d","o","r",
       "." >>

TextFeriasTwice ==
    << "F","E","R","I","A","S","\n","O"," ","c","o","l","a","b","o","r","a",
       "d","o","r"," ","t","e","m"," ","d","i","r","e","i","t","o"," ","a",
       " ","t","r","i","n","t","a"," ","d","i","a","s"," ","d","e"," ","f",
       "e","r","i","a","s"," ","p","o","r"," ","a","n","o","."," ","O"," ",
       "c","o","l","a","b","o","r","a","d","o","r"," ","t","e","m"," ","d",
       "i","r","e","i","t","o"," ","a"," ","t","r","i","n","t","a"," ","d",
       "i","a","s"," ","d","e"," ","f","e","r","i","a","s"," ","p","o","r",
       " ","a","n","o",".","\n","F","E","R","I","A","S","\n","O"," ","c","o",
       "l","a","b","o","r","a","d","o","r"," ","t","e","m"," ","d","i","r",
       "e","i","t","o"," ","a"," ","t","r","i","n","t","a"," ","d","i","a",
       "s"," ","d","e"," ","f","e","r","i","a","s"," ","p","o","r"," ","a",
       "n","o","."," ","O"," ","c","o","l","a","b","o","r","a","d","o","r",
       " ","t","e","m"," ","d","i","r","e","i","t","o"," ","a"," ","t","r",
       "i","n","t","a"," ","d","i","a","s"," ","d","e"," ","f","e","r","i",
       "a","s"," ","p","o","r"," ","a","n","o","." >>

DocumentTexts == { <<>>, TextResumo, TextFerias, TextFeriasSaude, TextFeriasTwice }

\* chunker.chunk_text(raw_text, doc_metadata) of each text
DocumentChunks == [t \in DocumentTexts |-> chunk_text(t, ProductionConfig)]

ContentTypePdf == "application/pdf"
ContentTypeDocx ==
    "application/vnd.openxmlformats-officedocument.wordprocessingml.document"
ContentTypePlain == "text/plain"

\* hashlib.sha256(file_content).hexdigest(): a file is given by the text in
\* it, and the digest of a file by its position in the list of the files
FileContents == <<TextResumo, TextFerias, TextFeriasSaude, TextFeriasTwice, <<>> >>

sha256(file_content) == CHOOSE k \in DOMAIN FileContents : FileContents[k] = file_content

\* a row of documents as the upload route leaves it
DocumentModel(tenant_id, content_type, file_text) ==
    [tenant_id |-> tenant_id, content_type |-> content_type,
     file_text |-> file_text, content_hash |-> sha256(file_text),
     status |-> "processing"]

DocumentRows ==
    { DocumentModel(1, ContentTypePdf, x) : x \in DocumentTexts }
    \cup { DocumentModel(2, ContentTypePdf, TextFerias),
           DocumentModel(2, ContentTypeDocx, TextFeriasSaude),
           DocumentModel(1, ContentTypePlain, TextFerias) }

\* a row of chunk_hashes
ChunkHashModel(tenant_id, document_id, content_hash, chunk_index) ==
    [tenant_id |-> tenant_id, document_id |-> document_id,
     content_hash |-> content_hash, chunk_index |-> chunk_index]

\* the hashes of the two chunks of TextFeriasSaude
HashFerias == DocumentChunks[TextFeriasSaude][1].content_hash
HashSaude == DocumentChunks[TextFeriasSaude][2].content_hash

\* contents of chunk_hashes that the unique content_hash column admits
HashTables ==
    LET ferias == HashFerias
        saude == HashSaude
    IN  << <<>>,
           <<ChunkHashModel(1, 1, ferias, 0)>>,
           <<ChunkHashModel(2, 2, ferias, 0)>>,
           <<ChunkHashModel(1, 1, ferias, 0), ChunkHashModel(1, 1, saude, 1)>> >>

\* the query without the tenant filter
existing_hashes_all_tenants(hashes, tenant_id) ==
    { hashes[i].content_hash : i \in 1..Len(hashes) }

\* db.query(ChunkHashModel.content_hash).filter(tenant_id == ...).all()
existing_hashes(hashes, tenant_id) ==
    { hashes[i].content_hash :
        i \in { k \in 1..Len(hashes) : hashes[k].tenant_id = tenant_id } }

\* the loop that filters out duplicates
RECURSIVE FilterFrom(_, _, _, _)
FilterFrom(chunks_with_metadata, i, existing, unique) ==
    IF i > Len(chunks_with_metadata) THEN unique
    ELSE IF chunks_with_metadata[i].content_hash \notin existing
    THEN FilterFrom(chunks_with_metadata, i + 1,
                    existing \cup {chunks_with_metadata[i].content_hash},
                    Append(unique, chunks_with_metadata[i]))
    ELSE FilterFrom(chunks_with_metadata, i + 1, existing, unique)

\* the filter without the hashes of the batch itself
filter_duplicates_recorded_only(chunks_with_metadata, existing) ==
    SelectSeq(chunks_with_metadata, LAMBDA c : c.content_hash \notin existing)

\* unique_chunks / chunk_metadata_list of run_document_ingestion
filter_duplicates(chunks_with_metadata, existing) ==
    FilterFrom(chunks_with_metadata, 1, existing, <<>>)

\* the parameters of QdrantService.upsert_chunks and the keywords
\* run_document_ingestion passes to it
UpsertChunksParameters == {"tenant_id", "document_id", "chunks", "embeddings"}
UpsertChunksKeywords ==
    {"tenant_id", "document_id", "chunks", "embeddings", "document_metadata"}

\* the call raises TypeError when a keyword is no parameter
UpsertRaises == ~(UpsertChunksKeywords \subseteq UpsertChunksParameters)

\* the payloads QdrantService.upsert_chunks writes
UpsertPoints(tenant_id, document_id, unique) ==
    [i \in 1..Len(unique) |->
        [tenant_id |-> tenant_id, document_id |-> document_id,
         chunk_index |-> i - 1, text |-> unique[i].text]]

\* the rows step 6 adds
NewHashRows(tenant_id, document_id, unique) ==
    [i \in 1..Len(unique) |->
        ChunkHashModel(tenant_id, document_id, unique[i].content_hash, i - 1)]

\* the commit violates the unique content_hash column
IntegrityError(hashes, unique) ==
    \E i \in 1..Len(hashes), j \in 1..Len(unique) :
        hashes[i].content_hash = unique[j].content_hash

\* what a run leaves behind
Outcome(status, existing, embedded, upserted, added) ==
    [status |-> status, existing |-> existing, embedded |-> embedded,
     upserted |-> upserted, added |-> added]

Texts(unique) == [i \in 1..Len(unique) |-> unique[i].text]

\* steps 4 to 7 of run_document_ingestion; the success log at line 247
\* reads the undefined name chunks, so a run that passes every step ends
\* in the except branch
StoreUnique(document_id, tenant_id, embed_ok, hashes, existing, unique) ==
    IF unique = <<>> THEN Outcome("processed", existing, <<>>, <<>>, <<>>)
    ELSE IF ~embed_ok THEN Outcome("failed", existing, <<>>, <<>>, <<>>)
    ELSE IF UpsertRaises THEN Outcome("failed", existing, Texts(unique), <<>>, <<>>)
    ELSE IF IntegrityError(hashes, unique)
    THEN Outcome("failed", existing, Texts(unique),
                 UpsertPoints(tenant_id, document_id, unique), <<>>)
    ELSE Outcome("failed", existing, Texts(unique),
                 UpsertPoints(tenant_id, document_id, unique),
                 NewHashRows(tenant_id, document_id, unique))

\* step 3 of run_document_ingestion: the chunks are filtered
IngestChunks(document_id, tenant_id, embed_ok, hashes, chunks_with_metadata) ==
    IF chunks_with_metadata = <<>> THEN Outcome("failed", {}, <<>>, <<>>, <<>>)
    ELSE StoreUnique(document_id, tenant_id, embed_ok, hashes,
                     existing_hashes(hashes, tenant_id),
                     filter_duplicates(chunks_with_metadata,
                                       existing_hashes(hashes, tenant_id)))

\* run_document_ingestion for a document that exists
run_document_ingestion(document_id, document, file_exists, embed_ok, hashes) ==
    IF ~file_exists THEN Outcome("failed", {}, <<>>, <<>>, <<>>)
    ELSE IF document.content_type \notin {ContentTypePdf, ContentTypeDocx}
    THEN Outcome("failed", {}, <<>>, <<>>, <<>>)
    ELSE IF strip(document.file_text) = <<>> THEN Outcome("failed", {}, <<>>, <<>>, <<>>)
    ELSE IngestChunks(document_id, document.tenant_id, embed_ok, hashes,
                      DocumentChunks[document.file_text])

NoRun == [document_id |-> 0, outcome |-> Outcome("none", {}, <<>>, <<>>, <<>>)]

DgInit ==
    /\ dg_documents \in [1..MaxDocuments -> DocumentRows]
    /\ \E k \in DOMAIN HashTables : dg_hashes = HashTables[k]
    /\ dg_points = <<>>
    /\ dg_run = NoRun

\* ingestion is not part of the run
DgOff ==
    /\ dg_documents = <<>>
    /\ dg_hashes = <<>>
    /\ dg_points = <<>>
    /\ dg_run = NoRun

\* what a run commits: the status of the document, the hash rows, the points
Commit(document_id, outcome) ==
    /\ dg_run' = [document_id |-> document_id, outcome |-> outcome]
    /\ dg_documents' = [dg_documents EXCEPT ![document_id].status = outcome.status]
    /\ dg_hashes' = dg_hashes \o outcome.added
    /\ dg_points' = dg_points \o outcome.upserted

\* one call of run_document_ingestion(document_id).  With the names of
\* the module as the file has them (names_bound = FALSE) SessionLocal() at
\* line 86 raises NameError before the try block is entered and the call
\* writes nothing; names_bound = TRUE is the call with the missing names
\* bound to the definitions of the repository.
Ingest(document_id, names_bound, file_exists, embed_ok) ==
    IF ~names_bound
    THEN /\ dg_run' = [document_id |-> document_id,
                       outcome |-> Outcome("name_error", {}, <<>>, <<>>, <<>>)]
         /\ UNCHANGED <<dg_documents, dg_hashes, dg_points>>
    ELSE IF document_id \notin DOMAIN dg_documents
    THEN /\ dg_run' = [document_id |-> document_id,
                       outcome |-> Outcome("not_found", {}, <<>>, <<>>, <<>>)]
         /\ UNCHANGED <<dg_documents, dg_hashes, dg_points>>
    ELSE Commit(document_id,
                run_document_ingestion(document_id, dg_documents[document_id],
                                       file_exists, embed_ok, dg_hashes))

\* the background task run_document_ingestion(document_id)
RunDocumentIngestion ==
    \E document_id \in 1..(MaxDocuments + 1), names_bound \in BOOLEAN,
       file_exists \in BOOLEAN, embed_ok \in BOOLEAN :
        /\ Ingest(document_id, names_bound, file_exists, embed_ok)
        /\ OnlyDg

-----------------------------------------------------------------------------
(* POST /ask from the retrieval results on (ask.py, steps 6 to 10).  A     *)
(* text is given by its number of characters: the handler reads only its   *)
(* truth value and its length.  Absent is a key the hit does not have.     *)

MaxHits == 3
MAX_CONTEXT_CHARS == 5000

\* the "text" and "chunk_text" entries of the hits
HitShapes ==
    { [text |-> t, chunk_text |-> c] :
        t \in {Absent, 0, 2000, 3000, 5001}, c \in {Absent, 2500} }

AskResults == UNION { [1..n -> HitShapes] : n \in 0..MaxHits }

\* hit.get("text") or hit.get("chunk_text") or ""
HitText(hit) ==
    IF hit.text > 0 THEN hit.text
    ELSE IF hit.chunk_text > 0 THEN hit.chunk_text
    ELSE 0

\* step 6: one chunk for every hit that has a text; rank is the position
\* of the hit in the results
RECURSIVE AssembleFrom(_, _, _)
AssembleFrom(results, i, chunks) ==
    IF i > Len(results) THEN chunks
    ELSE IF HitText(results[i]) = 0 THEN AssembleFrom(results, i + 1, chunks)
    ELSE AssembleFrom(results, i + 1,
                      Append(chunks, [rank |-> i, text |-> HitText(results[i])]))

assemble_context(results) == AssembleFrom(results, 1, <<>>)

\* step 7, the loop over zip(context_chunks, sources)
RECURSIVE CapFrom(_, _, _, _)
CapFrom(context_chunks, i, total_chars, filtered_context) ==
    IF i > Len(context_chunks) THEN filtered_context
    ELSE IF total_chars + context_chunks[i].text > MAX_CONTEXT_CHARS
    THEN filtered_context
    ELSE CapFrom(context_chunks, i + 1, total_chars + context_chunks[i].text,
                 Append(filtered_context, context_chunks[i]))

\* the loop with continue in the place of break
RECURSIVE CapSkipping(_, _, _, _)
CapSkipping(context_chunks, i, total_chars, filtered_context) ==
    IF i > Len(context_chunks) THEN filtered_context
    ELSE IF total_chars + context_chunks[i].text > MAX_CONTEXT_CHARS
    THEN CapSkipping(context_chunks, i + 1, total_chars, filtered_context)
    ELSE CapSkipping(context_chunks, i + 1, total_chars + context_chunks[i].text,
                     Append(filtered_context, context_chunks[i]))

limit_context_skipping(context_chunks) == CapSkipping(context_chunks, 1, 0, <<>>)

limit_context(context_chunks) == CapFrom(context_chunks, 1, 0, <<>>)

\* the parameters of LLMService.answer_with_context_and_citations and the
\* keywords the handler passes
AnswerParameters == {"question", "context_chunks", "system_prompt"}
AnswerKeywords == {"question", "context_chunks", "system_prompt", "chat_history"}

\* the call raises TypeError on LLMService; a test double takes any keyword
AnswerRaisesTypeError(llm) ==
    llm = "LLMService" /\ ~(AnswerKeywords \subseteq AnswerParameters)

\* what the model gives back: an LLMServiceError, or an answer with its
\* citation numbers
ModelReplies ==
    { [error |-> TRUE, citations |-> <<>>, has_answer |-> FALSE],
      [error |-> FALSE, citations |-> <<>>, has_answer |-> FALSE],
      [error |-> FALSE, citations |-> <<1>>, has_answer |-> TRUE],
      [error |-> FALSE, citations |-> <<0, 2, 4>>, has_answer |-> TRUE] }

AskRequests ==
    { [question |-> q, llm |-> l, results |-> r, reply |-> m] :
        q \in {<<" ">>, QueryPolitica}, l \in {"LLMService", "double"},
        r \in AskResults, m \in ModelReplies }

\* step 9 with idx = c in the place of idx = c - 1
mark_citations_zero_based(context_chunks, citations) ==
    [i \in 1..Len(context_chunks) |->
        [rank |-> context_chunks[i].rank, text |-> context_chunks[i].text,
         cited |-> \E n \in 1..Len(citations) : citations[n] = i - 1]]

\* step 9: the sources of the capped context, cited when their 1-based
\* position is among the citations
mark_citations(context_chunks, citations) ==
    [i \in 1..Len(context_chunks) |->
        [rank |-> context_chunks[i].rank, text |-> context_chunks[i].text,
         cited |-> \E n \in 1..Len(citations) : citations[n] - 1 = i - 1]]

HttpError(status) ==
    [status |-> status, sources |-> <<>>, citations |-> <<>>, has_answer |-> FALSE]

NoResponse == HttpError(0)

NoRequest ==
    [question |-> <<>>, llm |-> "none", results |-> <<>>,
     reply |-> [error |-> FALSE, citations |-> <<>>, has_answer |-> FALSE]]

AkInit ==
    /\ ak_pc = "request"
    /\ ak_request \in AskRequests
    /\ ak_context = <<>>
    /\ ak_calls = 0
    /\ ak_saved = <<>>
    /\ ak_response = NoResponse

\* /ask is not part of the run
AkOff ==
    /\ ak_pc = "off"
    /\ ak_request = NoRequest
    /\ ak_context = <<>>
    /\ ak_calls = 0
    /\ ak_saved = <<>>
    /\ ak_response = NoResponse

\* steps 8 to 10 with the capped context
Answer(context_chunks) ==
    /\ ak_context' = context_chunks
    /\ IF AnswerRaisesTypeError(ak_request.llm)
       THEN /\ ak_calls' = ak_calls
            /\ ak_response' = HttpError(500)
            /\ ak_saved' = ak_saved
       ELSE /\ ak_calls' = ak_calls + 1
            /\ IF ak_request.reply.error
               THEN /\ ak_response' = HttpError(502)
                    /\ ak_saved' = ak_saved
               ELSE /\ ak_response' =
                          [status |-> 200,
                           sources |-> mark_citations(context_chunks,
                                                      ak_request.reply.citations),
                           citations |-> ak_request.reply.citations,
                           has_answer |-> ak_request.reply.has_answer]
                    /\ ak_saved' = ak_saved \o <<"user", "assistant">>

\* async def ask(payload, db, current_user, llm)
Ask ==
    /\ ak_pc = "request"
    /\ ak_pc' = "responded"
    /\ IF strip(ak_request.question) = <<>>
       THEN /\ ak_response' = HttpError(400)
            /\ UNCHANGED <<ak_context, ak_calls, ak_saved>>
       ELSE Answer(limit_context(assemble_context(ak_request.results)))
    /\ UNCHANGED ak_request
    /\ OnlyAk

-----------------------------------------------------------------------------
(* The documents routes (documents.py): upload_document,                   *)
(* retry_document_ingestion and delete_document, and the background tasks  *)
(* they schedule.  The routes are plain functions, which the framework     *)
(* runs in worker threads, so two uploads interleave between the duplicate *)
(* query and the commit of the new row.                                    *)

MaxUploads == 2
MaxTasks == 2

UploadFiles == {TextResumo, TextFerias}
UploadContentTypes == {ContentTypePdf, ContentTypePlain}

\* a request that has not arrived, one that passed the duplicate check, and
\* the response of one that returned
UploadRequest(pc, tenant_id, content_type, file_content, status_code, document_id) ==
    [pc |-> pc, tenant_id |-> tenant_id, content_type |-> content_type,
     file_content |-> file_content, status_code |-> status_code,
     document_id |-> document_id]

NoUpload == UploadRequest("none", 0, "", <<>>, 0, 0)

\* db.query(DocumentModel).filter(tenant_id == ..., content_hash == ...):
\* the ids of the rows the query matches
existing_doc_by_hash(documents, tenant_id, content_hash) ==
    { d \in DOMAIN documents :
        /\ documents[d].tenant_id = tenant_id
        /\ documents[d].content_hash = content_hash }

\* the routes leave the services outside ingestion as they are
OnlyDocuments == UnchangedPipeline /\ UNCHANGED <<qwVars, ctVars, ckVars, akVars>>

\* upload_document up to the duplicate check (lines 48-87): the content
\* type is tested, the hash computed, the table queried; .first() has no
\* ORDER BY, so it returns any of the rows that match
UploadCheck ==
    \E r \in 1..MaxUploads, tenant_id \in TenantIds,
       content_type \in UploadContentTypes, file_content \in UploadFiles :
        /\ r \in DOMAIN dc_requests
        /\ dc_requests[r].pc = "none"
        /\ IF content_type \notin {ContentTypePdf, ContentTypeDocx}
           THEN dc_requests' = [dc_requests EXCEPT ![r] =
                    UploadRequest("done", tenant_id, content_type, file_content, 400, 0)]
           ELSE LET existing == existing_doc_by_hash(dg_documents, tenant_id,
                                                     sha256(file_content))
                IN  IF existing # {}
                    THEN \E d \in existing :
                            dc_requests' = [dc_requests EXCEPT ![r] =
                                UploadRequest("done", tenant_id, content_type,
                                              file_content, 201, d)]
                    ELSE dc_requests' = [dc_requests EXCEPT ![r] =
                            UploadRequest("checked", tenant_id, content_type,
                                          file_content, 0, 0)]
        /\ UNCHANGED <<dc_tasks, dc_next_id, dgVars>>
        /\ OnlyDocuments

\* upload_document from the versioning on (lines 89-134): the row is
\* added with status PROCESSING and the ingestion is scheduled
UploadCommit ==
    \E r \in DOMAIN dc_requests :
        /\ dc_requests[r].pc = "checked"
        /\ dg_documents' = dg_documents @@
               (dc_next_id :> DocumentModel(dc_requests[r].tenant_id,
                                            dc_requests[r].content_type,
                                            dc_requests[r].file_content))
        /\ dc_next_id' = dc_next_id + 1
        /\ dc_tasks' = Append(dc_tasks, dc_next_id)
        /\ dc_requests' = [dc_requests EXCEPT ![r].pc = "done",
                                              ![r].status_code = 201,
                                              ![r].document_id = dc_next_id]
        /\ UNCHANGED <<dg_hashes, dg_points, dg_run>>
        /\ OnlyDocuments

\* retry_document_ingestion: 404 for a document the tenant does not have,
\* else the document goes back to PROCESSING and a task is scheduled
RetryDocumentIngestion ==
    \E document_id \in 1..MaxUploads, tenant_id \in TenantIds :
        /\ Len(dc_tasks) < MaxTasks
        /\ IF /\ document_id \in DOMAIN dg_documents
              /\ dg_documents[document_id].tenant_id = tenant_id
           THEN /\ dg_documents' = [dg_documents EXCEPT ![document_id].status = "processing"]
                /\ dc_tasks' = Append(dc_tasks, document_id)
           ELSE UNCHANGED <<dg_documents, dc_tasks>>
        /\ UNCHANGED <<dc_requests, dc_next_id, dg_hashes, dg_points, dg_run>>
        /\ OnlyDocuments

\* a scheduled task runs run_document_ingestion; the tasks of different
\* requests run in no fixed order
RunTask ==
    \E i \in DOMAIN dc_tasks, names_bound \in BOOLEAN,
       file_exists \in BOOLEAN, embed_ok \in BOOLEAN :
        /\ Ingest(dc_tasks[i], names_bound, file_exists, embed_ok)
        /\ dc_tasks' = SubSeq(dc_tasks, 1, i - 1) \o SubSeq(dc_tasks, i + 1, Len(dc_tasks))
        /\ UNCHANGED <<dc_requests, dc_next_id>>
        /\ OnlyDocuments

\* QdrantService.delete_document: the points of the document of the tenant
qdrant_delete_document(points, tenant_id, document_id) ==
    SelectSeq(points, LAMBDA p : ~(p.tenant_id = tenant_id /\ p.document_id = document_id))

\* delete_document: 404 for a document the tenant does not have; an error
\* of the vector store is logged and the row is deleted all the same
DeleteDocument ==
    \E document_id \in 1..MaxUploads, tenant_id \in TenantIds, qdrant_ok \in BOOLEAN :
        /\ IF /\ document_id \in DOMAIN dg_documents
              /\ dg_documents[document_id].tenant_id = tenant_id
           THEN /\ dg_points' = IF qdrant_ok
                                THEN qdrant_delete_document(dg_points, tenant_id, document_id)
                                ELSE dg_points
                /\ dg_hashes' = SelectSeq(dg_hashes, LAMBDA h : h.document_id # document_id)
                /\ dg_documents' = [d \in DOMAIN dg_documents \ {document_id} |->
                                        dg_documents[d]]
           ELSE UNCHANGED <<dg_documents, dg_hashes, dg_points>>
        /\ UNCHANGED <<dg_run, dcVars>>
        /\ OnlyDocuments

DcInit ==
    /\ dc_requests = [r \in 1..MaxUploads |-> NoUpload]
    /\ dc_tasks = <<>>
    /\ dc_next_id = 1

\* the routes are not part of the run
DcOff ==
    /\ dc_requests = <<>>
    /\ dc_tasks = <<>>
    /\ dc_next_id = 0

\* no document yet
DgEmpty ==
    /\ dg_documents = <<>>
    /\ dg_hashes = <<>>
    /\ dg_points = <<>>
    /\ dg_run = NoRun

DocumentsNext ==
    \/ UploadCheck
    \/ UploadCommit
    \/ RetryDocumentIngestion
    \/ RunTask
    \/ DeleteDocument

-----------------------------------------------------------------------------
(* The life of the fragments of a document in the lexical index: the       *)
(* ingestion, the deletion of a document, and a caller of index_chunks /   *)
(* add_chunks that indexes fragments of the documents of the table.        *)

\* a fragment tagged with the tenant and the id of its document; the
\* fragment of the first document holds a word the others do not have
DocumentFragments(documents) ==
    { [text |-> IF d = 1 THEN <<"a", "-", "B">> ELSE <<"a">>,
       tenant_id |-> documents[d].tenant_id, document_id |-> d] :
        d \in DOMAIN documents }

\* index_chunks with fragments of a document
IndexFragments ==
    \E chunk \in DocumentFragments(dg_documents) :
        /\ index_chunks(<<chunk>>)
        /\ ix_call' = IndexCall("index_chunks", <<chunk>>)
        /\ search_out' = NoSearch
        /\ UNCHANGED thVars
        /\ UnchangedOthers

\* add_chunks with fragments of a document
AddFragments ==
    \E chunk \in DocumentFragments(dg_documents) :
        /\ Len(corpus) < MaxCorpus
        /\ add_chunks(<<chunk>>)
        /\ ix_call' = IndexCall("add_chunks", <<chunk>>)
        /\ search_out' = NoSearch
        /\ UNCHANGED thVars
        /\ UnchangedOthers

LifecycleInit ==
    /\ dg_documents = [d \in 1..MaxDocuments |->
                          DocumentModel(IF d = 1 THEN 1 ELSE 2, ContentTypePdf, TextFerias)]
    /\ dg_hashes = <<>>
    /\ dg_points = <<>>
    /\ dg_run = NoRun

LifecycleNext ==
    \/ RunDocumentIngestion
    \/ DeleteDocument
    \/ IndexFragments
    \/ AddFragments
    \/ Search

\* the services around the pipeline are not part of the run
ExOff == QwOff /\ CtOff /\ CkOff /\ DgOff /\ AkOff /\ DcOff

InitAnalyzer == AnInit /\ RrOff /\ FuOff /\ HOff /\ IxIdle /\ ExOff
SpecAnalyzer == InitAnalyzer /\ [][Analyze]_vars

InitRerank == AnOff /\ RrInit /\ FuOff /\ HOff /\ IxIdle /\ ExOff
SpecRerank == InitRerank /\ [][Rerank]_vars

InitFusion == AnOff /\ RrOff /\ FuInit /\ HOff /\ IxIdle /\ ExOff
SpecFusion == InitFusion /\ [][Fuse]_vars

InitHybrid == AnOff /\ RrOff /\ FuOff /\ HInit /\ IxIdle /\ ExOff
SpecHybrid == InitHybrid /\ [][HNext]_vars

InitIndex == AnOff /\ RrOff /\ FuOff /\ HOff /\ IxIdle /\ ExOff
SpecIndex == InitIndex /\ [][IxNext]_vars

InitRewrite == AnOff /\ RrOff /\ FuOff /\ HOff /\ IxIdle /\ QwInit /\ CtOff /\ CkOff /\ DgOff
    /\ AkOff /\ DcOff
SpecRewrite == InitRewrite /\ [][QwNext]_vars

InitCitations == AnOff /\ RrOff /\ FuOff /\ HOff /\ IxIdle /\ QwOff /\ CtInit /\ CkOff /\ DgOff
    /\ AkOff /\ DcOff
SpecCitations == InitCitations /\ [][ExtractCitations]_vars

InitChunker == AnOff /\ RrOff /\ FuOff /\ HOff /\ IxIdle /\ QwOff /\ CtOff /\ CkInit /\ DgOff
    /\ AkOff /\ DcOff
SpecChunker == InitChunker /\ [][ChunkText]_vars

InitIngestion ==
    AnOff /\ RrOff /\ FuOff /\ HOff /\ IxIdle /\ QwOff /\ CtOff /\ CkOff /\ DgInit /\ AkOff /\ DcOff
SpecIngestion == InitIngestion /\ [][RunDocumentIngestion]_vars

InitAsk ==
    AnOff /\ RrOff /\ FuOff /\ HOff /\ IxIdle /\ QwOff /\ CtOff /\ CkOff /\ DgOff /\ AkInit /\ DcOff
SpecAsk == InitAsk /\ [][Ask]_vars

InitDocuments ==
    AnOff /\ RrOff /\ FuOff /\ HOff /\ IxIdle /\ QwOff /\ CtOff /\ CkOff /\ DgEmpty /\ AkOff
    /\ DcInit
SpecDocuments == InitDocuments /\ [][DocumentsNext]_vars

InitLifecycle ==
    AnOff /\ RrOff /\ FuOff /\ HOff /\ IxIdle /\ QwOff /\ CtOff /\ CkOff /\ LifecycleInit
    /\ AkOff /\ DcOff
SpecLifecycle == InitLifecycle /\ [][LifecycleNext]_vars

InitRace ==
    AnOff /\ RrOff /\ FuOff /\ HOff /\ IxInit /\ search_out = NoSearch /\ ix_call = NoCall
    /\ ThInit /\ ExOff
SpecRace == InitRace /\ [][RaceNext]_vars

-----------------------------------------------------------------------------
(* Claims about QueryAnalyzer, checked under SpecAnalyzer                  *)

AnQueryLower == strip(lower(an_query))
AnWordCount == Len(split(AnQueryLower))
AnIsSimple == \E i \in 1..Len(SIMPLE_PATTERNS) : re_search_start(SIMPLE_PATTERNS[i], AnQueryLower)
AnIsComplex == \E i \in 1..Len(COMPLEX_PATTERNS) : re_search(COMPLEX_PATTERNS[i], AnQueryLower)
AnIsProcedural == \E i \in 1..Len(PROCEDURAL_PATTERNS) : re_search(PROCEDURAL_PATTERNS[i], AnQueryLower)
AnBaseK ==
    CASE an_result.query_type = "simple" -> 3
      [] an_result.query_type = "complex" -> 10
      [] an_result.query_type = "procedural" -> 7
      [] OTHER -> 5

Claim_C9 ==
    an_pc = "done" =>
        an_result.recommended_k =
            Min(15, AnBaseK + (IF AnWordCount > 15 THEN 2 ELSE 0)
                            + (IF AnWordCount > 25 THEN 4 ELSE 0))

\* C10: query_type is one of the four types, recommended_k is in 3..15 and
\* complexity_score (in tenths) is in 0..10 and equals the capped sum of
\* +2 (>10 words), +2 (>20 words), +2 (more than one '?'), +1 per conjunction
\* up to +3, +2 (comparison cue).
Theorem_C10 ==
    an_pc = "done" =>
        /\ an_result.query_type \in {"simple", "complex", "procedural", "general"}
        /\ an_result.recommended_k \in 3..15
        /\ an_result.complexity_score \in 0..10
        /\ an_result.complexity_score =
               Min(10, (IF AnWordCount > 10 THEN 2 ELSE 0)
                     + (IF AnWordCount > 20 THEN 2 ELSE 0)
                     + (IF count(AnQueryLower, "?") > 1 THEN 2 ELSE 0)
                     + Min(3, findall_words(CONJUNCTIONS, AnQueryLower))
                     + (IF re_search(COMPARISON_WORDS, AnQueryLower) THEN 2 ELSE 0))

\* a query whose uncapped sum is 1.1 has been scored 1.0
Witness_C10 ==
    /\ an_pc = "done"
    /\ AnWordCount > 20
    /\ count(AnQueryLower, "?") > 1
    /\ findall_words(CONJUNCTIONS, AnQueryLower) >= 3
    /\ re_search(COMPARISON_WORDS, AnQueryLower)
    /\ an_result.complexity_score = 10

\* the cues of a question that asks for a procedure
ProceduralCues ==
    { <<"c","o","m","o">>, <<"p","a","s","s","o"," ","a"," ","p","a","s","s","o">>,
      <<"p","r","o","c","e","s","s","o">> }

\* C11: every question of at most 15 words that holds 'como',
\* 'passo a passo' or 'processo' is given recommended_k = 7, among them
\* 'Como solicitar férias?', 'Qual o passo a passo para onboarding?' and
\* 'Qual é o processo de avaliação?'.
Claim_C11 ==
    (an_pc = "done" /\ AnWordCount <= 15 /\ re_search(ProceduralCues, AnQueryLower))
        => an_result.recommended_k = 7

-----------------------------------------------------------------------------
(* Claims about RerankerService.rerank, checked under SpecRerank           *)

RrPassing == {i \in 1..Len(rr_chunks) : rr_scores[i] >= rr_threshold}

RrCountAndThreshold ==
    /\ Len(rr_result) = Min(rr_top_k, Cardinality(RrPassing))
    /\ \A i \in 1..Len(rr_result) :
          /\ rr_result[i].rerank_score >= rr_threshold
          /\ \E j \in 1..Len(rr_chunks) :
                rr_result[i] = [chunk |-> rr_chunks[j], rerank_score |-> rr_scores[j]]

\* C7 as stated: the returned candidates are strictly descending by
\* rerank_score, there are exactly min(topK, candidates passing the
\* threshold) of them, and none scores below the threshold.
Claim_C7 ==
    rr_pc = "done" =>
        /\ RrCountAndThreshold
        /\ \A i \in 1..(Len(rr_result) - 1) :
              rr_result[i].rerank_score > rr_result[i + 1].rerank_score

\* C7 amended: the returned candidates are in non-increasing order of
\* rerank_score (equal scores may follow each other), there are exactly
\* min(topK, candidates passing the threshold) of them, and none scores
\* below the threshold.
Theorem_C7 ==
    rr_pc = "done" =>
        /\ RrCountAndThreshold
        /\ \A i \in 1..(Len(rr_result) - 1) :
              rr_result[i].rerank_score >= rr_result[i + 1].rerank_score

\* a call that filtered a candidate out, cut the rest to top_k and
\* returned two candidates of equal score
Witness_C7 ==
    /\ rr_pc = "done"
    /\ Cardinality(RrPassing) < Len(rr_chunks)
    /\ Cardinality(RrPassing) > rr_top_k
    /\ Len(rr_result) >= 2
    /\ rr_result[1].rerank_score = rr_result[2].rerank_score

-----------------------------------------------------------------------------
(* Claims about _reciprocal_rank_fusion, checked under SpecFusion          *)

KeysOf(list) == {get_unique_key(list[i]) : i \in 1..Len(list)}

\* the 0-indexed rank of the candidate key in list
RankOf(list, key) == (CHOOSE i \in 1..Len(list) : get_unique_key(list[i]) = key) - 1

\* weight * 1/(k + r + 1) when key is in list, else 0
Contribution(list, key, weight, k) ==
    IF key \in KeysOf(list)
    THEN FracMul(weight, Frac(1, k + RankOf(list, key) + 1))
    ELSE Frac(0, 1)

FuPosition(key) == CHOOSE p \in 1..Len(fu_result) : fu_result[p].key = key

FuOnlyIn(list, other) == KeysOf(list) \ KeysOf(other)

\* C4: every candidate identity is fused once, with the score
\* sum over the lists it is in of weight(list) * 1/(k + r + 1), r its
\* 0-indexed rank there; it is tagged hybrid when in both lists and by its
\* list otherwise.  With weights 1.0/1.0 and k = 60 a single-list rank-0
\* candidate scores 1/61 and one at rank 0 of both lists scores 2/61.
Theorem_C4 ==
    fu_pc = "done" =>
        /\ {fu_result[p].key : p \in 1..Len(fu_result)} = KeysOf(fu_list_a) \cup KeysOf(fu_list_b)
        /\ Len(fu_result) = Cardinality(KeysOf(fu_list_a) \cup KeysOf(fu_list_b))
        /\ \A p \in 1..Len(fu_result) :
              LET e == fu_result[p]
                  inA == e.key \in KeysOf(fu_list_a)
                  inB == e.key \in KeysOf(fu_list_b)
              IN  /\ e.rrf_score =
                         FracAdd(Contribution(fu_list_a, e.key, fu_weights.vector, fu_k),
                                 Contribution(fu_list_b, e.key, fu_weights.bm25, fu_k))
                  /\ e.source = IF inA /\ inB THEN "hybrid"
                                ELSE IF inA THEN "vector" ELSE "bm25"
                  /\ (fu_k = 60 /\ fu_weights = [vector |-> Frac(1, 1), bm25 |-> Frac(1, 1)])
                        => /\ (inA /\ ~inB /\ RankOf(fu_list_a, e.key) = 0)
                                 => e.rrf_score = [num |-> 1, den |-> 61]
                           /\ (inB /\ ~inA /\ RankOf(fu_list_b, e.key) = 0)
                                 => e.rrf_score = [num |-> 1, den |-> 61]
                           /\ (inA /\ inB /\ RankOf(fu_list_a, e.key) = 0
                                          /\ RankOf(fu_list_b, e.key) = 0)
                                 => e.rrf_score = [num |-> 2, den |-> 61]

\* weights 1.0/1.0 and k = 60: a candidate at rank 0 of both lists scored
\* 2/61 and tagged hybrid, next to a single-list candidate
Witness_C4 ==
    /\ fu_pc = "done"
    /\ fu_k = 60
    /\ fu_weights = [vector |-> Frac(1, 1), bm25 |-> Frac(1, 1)]
    /\ \E p, q \in 1..Len(fu_result) :
          /\ fu_result[p].source = "hybrid"
          /\ fu_result[p].rrf_score = [num |-> 2, den |-> 61]
          /\ fu_result[q].source = "vector"
          /\ fu_result[q].rrf_score = [num |-> 1, den |-> 62]

FuPositiveWeights == fu_weights.vector.num > 0 /\ fu_weights.bm25.num > 0

FuKeepsOrder(list, other) ==
    \A x, y \in FuOnlyIn(list, other) :
        RankOf(list, x) < RankOf(list, y) => FuPosition(x) < FuPosition(y)

FuBothRankZero ==
    /\ fu_list_a # <<>>
    /\ fu_list_b # <<>>
    /\ get_unique_key(fu_list_a[1]) = get_unique_key(fu_list_b[1])

\* C5: with positive weights, two candidates that are only in the same
\* input list keep their relative order from that list, and a candidate at
\* rank 0 of both lists comes before every candidate that is in one list only.
Theorem_C5 ==
    (fu_pc = "done" /\ FuPositiveWeights) =>
        /\ FuKeepsOrder(fu_list_a, fu_list_b)
        /\ FuKeepsOrder(fu_list_b, fu_list_a)
        /\ FuBothRankZero =>
              \A x \in FuOnlyIn(fu_list_a, fu_list_b) \cup FuOnlyIn(fu_list_b, fu_list_a) :
                  FuPosition(get_unique_key(fu_list_a[1])) < FuPosition(x)

\* a fusion with a rank-0 candidate of both lists and a single-list
\* candidate of each list
Witness_C5 ==
    /\ fu_pc = "done"
    /\ FuPositiveWeights
    /\ FuBothRankZero
    /\ FuOnlyIn(fu_list_a, fu_list_b) # {}
    /\ FuOnlyIn(fu_list_b, fu_list_a) # {}
    /\ fu_result[1].source = "hybrid"

-----------------------------------------------------------------------------
(* Claims about hybrid_search, checked under SpecHybrid                    *)

HVectorCompleted == h_pc \notin {"start", "vector_wait"}
HBM25Completed == h_pc \notin {"start", "vector_wait", "vector_done", "bm25_wait"}
HFusionStarted == h_pc \in {"rerank_wait", "done"}

\* C3: in hybrid mode the lexical search is started without waiting for the
\* vector search to return (while the vector search is out, the lexical
\* search can be issued), and fusion starts only after both have completed.
Claim_C3 ==
    h_enabled =>
        /\ h_pc = "vector_wait" => ENABLED HBM25Call
        /\ HFusionStarted => (HVectorCompleted /\ HBM25Completed)

\* C6 as stated: the fused score is non-increasing along the sequence
\* hybrid_search returns.
Claim_C6 ==
    (h_pc = "done" /\ h_enabled) =>
        \A i \in 1..(Len(h_result) - 1) :
            ~FracGt(h_result[i + 1].chunk.rrf_score, h_result[i].chunk.rrf_score)

\* C6 amended: the fused score is non-increasing along the fused candidates
\* that hybrid_search hands to the reranker; the sequence it returns holds
\* candidates of that list in non-increasing order of rerank_score.
Theorem_C6 ==
    (HFusionStarted /\ h_enabled) =>
        /\ \A i \in 1..(Len(h_candidates) - 1) :
              ~FracGt(h_candidates[i + 1].rrf_score, h_candidates[i].rrf_score)
        /\ h_pc = "done" =>
              /\ \A i \in 1..(Len(h_result) - 1) :
                    h_result[i].rerank_score >= h_result[i + 1].rerank_score
              /\ \A i \in 1..Len(h_result) :
                    \E j \in 1..Len(h_candidates) : h_result[i].chunk = h_candidates[j]

\* the reranker has put a candidate of lower fused score first
Witness_C6 ==
    /\ h_pc = "done"
    /\ h_enabled
    /\ Len(h_result) >= 2
    /\ FracGt(h_result[2].chunk.rrf_score, h_result[1].chunk.rrf_score)
    /\ h_result[1].rerank_score > h_result[2].rerank_score

-----------------------------------------------------------------------------
(* BM25Service: tenant isolation and concurrent use                        *)

\* C1: a search made with a tenant_id returns only fragments tagged with
\* that tenant: none of another tenant and none that carries no tenant tag
Claim_C1 ==
    (search_out.called /\ search_out.tenant_id # Absent) =>
        \A j \in 1..Len(search_out.results) :
            search_out.results[j].chunk.tenant_id = search_out.tenant_id

\* the metadata list as the index the reader scored was built from
MetadataMatchesSnapshot ==
    [i \in 1..Len(metadata) |-> tokenize(metadata[i].text)] = r_snapshot

\* the reader's next statement reads self.metadata[i]: the tenant check of
\* a filtered search, or the copy of a fragment whose score is positive
ReaderReadsMetadata ==
    \/ r_pc = "loop" /\ r_i <= Len(r_scores) /\ r_args.tenant_id # Absent
    \/ r_pc = "pair" /\ Positive(r_scores[r_i])

\* C2: a search running while index_chunks or add_chunks runs never sees a
\* partly rebuilt index: whenever it reads the fragment list to pair it with
\* its scores, the list is the one those scores were computed from, and the
\* read never fails on a position the list does not have
Claim_C2 ==
    /\ r_pc # "raised"
    /\ ReaderReadsMetadata => MetadataMatchesSnapshot

-----------------------------------------------------------------------------
(* Claims about QueryRewriterService, checked under SpecRewrite            *)

\* C12: rewrite_with_context returns current_query unchanged and makes no
\* generation call when the history is empty or the query is no follow-up
\* (at most 5 words, a back-reference pronoun, a leading 'e ', or
\* também/mesmo/aqui/lá); in every other case it makes exactly one call.
Claim_C12 ==
    qw_pc = "done" =>
        IF qw_history = <<>> \/ ~is_followup_question(qw_query)
        THEN qw_out.result = qw_query /\ qw_out.calls = 0
        ELSE qw_out.calls = 1

\* C13: rewrite_with_context never raises, whatever the language model
\* does, and returns either the original query or the model's stripped
\* output, the latter only when it is non-empty and longer than 5 characters.
Theorem_C13 ==
    qw_pc = "done" =>
        /\ ~qw_out.raised
        /\ \/ qw_out.result = qw_query
           \/ /\ qw_reply.kind = "text"
              /\ qw_out.result = strip(qw_reply.text)
              /\ Len(qw_out.result) > 5

\* a follow-up with history was sent to a collaborator that raised, and
\* the original query came back
Witness_C13 ==
    /\ qw_pc = "done"
    /\ qw_query = QueryEstagiarios
    /\ qw_history # <<>>
    /\ is_followup_question(qw_query)
    /\ qw_llm = "double"
    /\ qw_reply.kind = "raise"
    /\ qw_out.calls = 1
    /\ ~qw_out.raised
    /\ qw_out.result = qw_query

\* the messages of the conversation that are its last n
LatestMessages(n) ==
    LET latest == LastN(qw_stored, Min(n, Len(qw_stored)))
    IN  [i \in 1..Len(latest) |-> latest[i].content]

\* C14: when the conversation holds more messages than the read bound,
\* /ask loads the latest ones in chronological order, and the transcript
\* the rewriter builds is the last maxTurns user/assistant pairs of the
\* conversation.
Claim_C14 ==
    /\ qw_pc \in {"loaded", "done"} =>
           (Len(qw_stored) > 0 =>
               [i \in 1..Len(qw_history) |-> qw_history[i].content]
                   = LatestMessages(HISTORY_LIMIT))
    /\ (qw_pc = "done" /\ qw_out.built) =>
           [i \in 1..Len(qw_out.history_text) |-> qw_out.history_text[i].content]
               = LatestMessages(2 * MAX_HISTORY_TURNS)

-----------------------------------------------------------------------------
(* Claims about LLMService._extract_citations, checked under SpecCitations *)

\* the integers written between a '[' and the next ']' with nothing but
\* digits in between
BracketedIntegers(text) ==
    { ToInt(SubSeq(text, i + 1, j - 1)) :
        <<i, j>> \in { <<a, b>> \in (1..Len(text)) \X (1..Len(text)) :
                          /\ b > a + 1
                          /\ text[a] = "[" /\ text[b] = "]"
                          /\ \A m \in (a + 1)..(b - 1) : IsDigit(text[m]) } }

\* C15: the citation list is exactly the set of integers that occur inside
\* square brackets in the text, without duplicates and in ascending order;
\* 'Resposta [1] e [3]... [1]' gives [1, 3] and a text without bracketed
\* integers gives the empty list.
Theorem_C15 ==
    ct_pc = "done" =>
        /\ {ct_result[i] : i \in 1..Len(ct_result)} = BracketedIntegers(ct_text)
        /\ \A i \in 1..(Len(ct_result) - 1) : ct_result[i] < ct_result[i + 1]
        /\ ct_text = TextResposta => ct_result = <<1, 3>>
        /\ BracketedIntegers(ct_text) = {} => ct_result = <<>>

\* the text that cites [1] twice and [3] once has been handled
Witness_C15 ==
    /\ ct_pc = "done"
    /\ ct_text = TextResposta
    /\ ct_result = <<1, 3>>

-----------------------------------------------------------------------------
(* Claims about SemanticChunker, checked under SpecChunker                 *)

\* C16: for every text and configuration, no fragment chunk_text returns is
\* longer than maxSize + overlapSize characters.
Claim_C16 ==
    ck_pc = "done" =>
        \A n \in 1..Len(ck_result) :
            Len(ck_result[n].text) <= ck_config.max_chunk_size + ck_config.overlap_size

\* what chunk_text returns when no chunk is dropped for its size
ChunksWithoutMinimum ==
    LET all == chunk_text(ck_text, [ck_config EXCEPT !.min_chunk_size = 0])
    IN  [n \in 1..Len(all) |-> all[n].text]

\* C17: chunk_text never drops body content: the only fragment that may be
\* missing from what it returns is the single trailing chunk of the
\* document, and only when that chunk is shorter than minSize.
Claim_C17 ==
    ck_pc = "done" =>
        LET all == ChunksWithoutMinimum
            kept == [n \in 1..Len(ck_result) |-> ck_result[n].text]
        IN  \/ kept = all
            \/ /\ all # <<>>
               /\ kept = SubSeq(all, 1, Len(all) - 1)
               /\ Len(all[Len(all)]) < ck_config.min_chunk_size

-----------------------------------------------------------------------------
(* Claims about run_document_ingestion, checked under SpecIngestion        *)

\* how often a value occurs in a sequence
Times(s, x) == Cardinality({i \in 1..Len(s) : s[i] = x})

\* the hashes of the chunks of the document of the last run
RunHashes ==
    LET chunks == DocumentChunks[dg_documents[dg_run.document_id].file_text]
    IN  {chunks[i].content_hash : i \in 1..Len(chunks)}

-----------------------------------------------------------------------------
(* Claims about POST /ask, checked under SpecAsk                           *)

\* the ranks of the hits that have a text, in rank order
NonEmptyRanks ==
    SelectSeq([i \in 1..Len(ak_request.results) |-> i],
              LAMBDA i : ak_request.results[i].text > 0
                         \/ ak_request.results[i].chunk_text > 0)

\* the sum of the lengths of the texts of a context
RECURSIVE TotalChars(_)
TotalChars(context_chunks) ==
    IF context_chunks = <<>> THEN 0
    ELSE Head(context_chunks).text + TotalChars(Tail(context_chunks))

\* C19: the fragments kept by the context cap are a prefix of the non-empty
\* hits in rank order, and their texts have at most 5,000 characters in
\* total.
Theorem_C19 ==
    (ak_pc = "responded" /\ ak_response.status # 400) =>
        /\ Len(ak_context) <= Len(NonEmptyRanks)
        /\ \A i \in 1..Len(ak_context) : ak_context[i].rank = NonEmptyRanks[i]
        /\ TotalChars(ak_context) <= MAX_CONTEXT_CHARS

\* the cap kept the first fragments and dropped a later one
Witness_C19 ==
    /\ ak_pc = "responded"
    /\ ak_response.status # 400
    /\ Len(ak_context) >= 1
    /\ Len(ak_context) < Len(NonEmptyRanks)

\* C20: when no fragment reaches the model (no hit, or none left by the
\* cap), /ask makes one generation request with the empty context and
\* answers 200 with the model's answer and no sources, unless the model
\* itself fails.
Claim_C20 ==
    (/\ ak_pc = "responded"
     /\ strip(ak_request.question) # <<>>
     /\ ak_context = <<>>
     /\ ~ak_request.reply.error) =>
        /\ ak_calls = 1
        /\ ak_response.status = 200
        /\ ak_response.sources = <<>>

-----------------------------------------------------------------------------
(* Claims about the life of a fragment, checked under SpecLifecycle        *)

\* C21: every fragment an ingestion stored in the vector store is in the
\* lexical index, and no search of the lexical index returns a fragment of
\* a document that was deleted.
Claim_C21 ==
    /\ \A i \in 1..Len(dg_points) :
           \E j \in 1..Len(metadata) :
               /\ metadata[j].document_id = dg_points[i].document_id
               /\ metadata[j].text = dg_points[i].text
    /\ search_out.called =>
           \A i \in 1..Len(search_out.results) :
               search_out.results[i].chunk.document_id \in DOMAIN dg_documents

-----------------------------------------------------------------------------
(* Claims about the documents routes, checked under SpecDocuments          *)

\* C22: a tenant holds at most one document per content hash, whatever
\* uploads ran and however they interleaved.
Claim_C22 ==
    \A d1, d2 \in DOMAIN dg_documents :
        (/\ d1 # d2
         /\ dg_documents[d1].tenant_id = dg_documents[d2].tenant_id)
            => dg_documents[d1].content_hash # dg_documents[d2].content_hash

-----------------------------------------------------------------------------
(* Claims about index_chunks and add_chunks, checked under SpecIndex       *)

\* the texts of a list of chunks
TextsOf(chunks_with_metadata) ==
    [i \in 1..Len(chunks_with_metadata) |-> chunks_with_metadata[i].text]

\* C23: after index_chunks(F) the index holds exactly the fragments of F,
\* for the empty list too, and the scorer is built over them.
Claim_C23 ==
    ix_call.op = "index_chunks" =>
        /\ corpus = TextsOf(ix_call.chunks)
        /\ metadata = ix_call.chunks
        /\ bm25.over = [i \in 1..Len(ix_call.chunks) |-> tokenize(ix_call.chunks[i].text)]

-----------------------------------------------------------------------------
(* Claims about the candidate pool of hybrid_search, checked under         *)
(* SpecHybrid                                                              *)

\* the candidates of the two result lists, counted once each
HFusedKeys == KeysOf(h_vector_results) \cup KeysOf(h_bm25_results)

\* the fused score of a candidate of the two result lists
HFusedScore(key) ==
    FracAdd(Contribution(h_vector_results, key, DefaultWeights.vector, RRF_K),
            Contribution(h_bm25_results, key, DefaultWeights.bm25, RRF_K))

\* C24: in hybrid mode each backend is asked for 4 * top_k candidates, the
\* reranker is handed the first min(4 * top_k, number of fused candidates)
\* candidates in fused-score order, and at most top_k results are returned.
Theorem_C24 ==
    h_enabled =>
        /\ h_pc # "start" => h_vector_limit = 4 * h_top_k
        /\ HVectorCompleted /\ h_pc # "vector_done" => h_bm25_limit = 4 * h_top_k
        /\ HFusionStarted =>
              /\ Len(h_candidates) = Min(4 * h_top_k, Cardinality(HFusedKeys))
              /\ \A i, j \in 1..Len(h_candidates) :
                    i # j => h_candidates[i].key # h_candidates[j].key
              /\ \A i \in 1..Len(h_candidates) :
                    /\ h_candidates[i].key \in HFusedKeys
                    /\ h_candidates[i].rrf_score = HFusedScore(h_candidates[i].key)
                    /\ \A key \in HFusedKeys :
                          FracGt(HFusedScore(key), h_candidates[i].rrf_score)
                              => \E j \in 1..(i - 1) : h_candidates[j].key = key
        /\ h_pc = "done" => Len(h_result) <= h_top_k

\* five candidates were fused for top_k = 1: the reranker was handed four
\* of them and hybrid_search returned one
Witness_C24 ==
    /\ h_enabled
    /\ h_pc = "done"
    /\ h_top_k = 1
    /\ Cardinality(HFusedKeys) = 5
    /\ Len(h_candidates) = 4
    /\ Len(h_result) = 1

-----------------------------------------------------------------------------
(* Claims about the overlap of chunks, checked under SpecChunker           *)

StartsWith(s, prefix) == Len(prefix) <= Len(s) /\ SubSeq(s, 1, Len(prefix)) = prefix

\* the text is one section, so every chunk but the last was closed because
\* the next paragraph or sentence did not fit
OneSection == ck_pc = "done" /\ Len(detect_sections(ck_text)) = 1

\* the chunk after a closed chunk begins with the overlap tail of the
\* closed chunk
NextBeginsWithTail ==
    OneSection =>
        \A i \in 1..(Len(ck_result) - 1) :
            StartsWith(ck_result[i + 1].text,
                       get_overlap(<<ck_result[i].text>>, ck_config))

\* the overlap tail of a closed chunk has at most overlap_size characters
TailWithinOverlap ==
    OneSection =>
        \A i \in 1..(Len(ck_result) - 1) :
            Len(get_overlap(<<ck_result[i].text>>, ck_config)) <= ck_config.overlap_size

\* C25: when a chunk is closed because the next paragraph or sentence
\* would exceed max_chunk_size, the next chunk begins with the overlap tail
\* of the closed chunk, and the tail is never longer than overlap_size.
Claim_C25 == NextBeginsWithTail /\ TailWithinOverlap

-----------------------------------------------------------------------------
(* Claims about the detection of follow-up questions, checked under        *)
(* SpecRewrite                                                             *)

\* the full questions of test_followup_detection and
\* test_no_rewrite_for_standalone
SelfContainedQuestions == {QueryPolitica, QueryPlano}

\* the query starts with 'E ', holds a back-reference pronoun or 'também',
\* or has at most two words
FollowUpCues ==
    LET query_lower == strip(lower(qw_query))
    IN  \/ Len(query_lower) >= 2 /\ query_lower[1] = "e" /\ IsSpace(query_lower[2])
        \/ findall_words(FOLLOWUP_PRONOUNS, query_lower) > 0
        \/ findall_words({<<"t","a","m","b","é","m">>}, query_lower) > 0
        \/ Len(split(query_lower)) <= 2

\* C26: with a history, a query with a follow-up cue is treated as a
\* follow-up (the rewrite prompt is built), and the self-contained
\* questions 'Qual a política de férias?' and 'Como funciona o plano de
\* saúde?' are not: they are returned unchanged and no generation call is
\* made.
Claim_C26 ==
    (qw_pc = "done" /\ qw_history # <<>>) =>
        /\ FollowUpCues => qw_out.built
        /\ qw_query \in SelfContainedQuestions =>
              /\ ~qw_out.built
              /\ qw_out.calls = 0
              /\ qw_out.result = qw_query

-----------------------------------------------------------------------------
(* Claims about the alignment of the fields of BM25Service, checked under  *)
(* SpecIndex                                                               *)

\* corpus, tokenized_corpus and metadata have one length and entry i of
\* each is the same fragment
FieldsAligned ==
    /\ Len(corpus) = Len(metadata)
    /\ Len(tokenized_corpus) = Len(metadata)
    /\ \A i \in 1..Len(metadata) :
          /\ corpus[i] = metadata[i].text
          /\ tokenized_corpus[i] = tokenize(metadata[i].text)

\* the scorer is the one built over tokenized_corpus (none when nothing
\* was ever indexed)
ScorerOverCorpus ==
    IF corpus = <<>> /\ ~is_indexed THEN bm25 = NoBM25
    ELSE bm25 = BM25Okapi(tokenized_corpus)

\* a call of add_chunks keeps the entries that were indexed, at their
\* positions, and appends the new ones
AddKeepsEntries ==
    AddChunks =>
        /\ Take(corpus', Len(corpus)) = corpus
        /\ Take(metadata', Len(metadata)) = metadata
        /\ Take(tokenized_corpus', Len(tokenized_corpus)) = tokenized_corpus
        /\ Len(metadata') >= Len(metadata)

\* C27: after any sequence of index_chunks and add_chunks calls the three
\* lists are aligned and the scorer is built over tokenized_corpus, and
\* add_chunks keeps what was indexed and appends.
Claim_C27 == [](FieldsAligned /\ ScorerOverCorpus) /\ [][AddKeepsEntries]_vars

-----------------------------------------------------------------------------
(* Claims about the marking of cited sources, checked under SpecAsk        *)

\* the citation numbers of the answer
CitationNumbers == {ak_request.reply.citations[n] : n \in 1..Len(ak_request.reply.citations)}

\* C28: in an answered /ask, the sources are those of the context that was
\* sent to the model, in its order, and source i is cited exactly when i is
\* one of the citation numbers of the answer; a number outside
\* 1..len(sources) marks nothing.
Theorem_C28 ==
    (ak_pc = "responded" /\ ak_response.status = 200) =>
        /\ Len(ak_response.sources) = Len(ak_context)
        /\ \A i \in 1..Len(ak_context) :
              /\ ak_response.sources[i].rank = ak_context[i].rank
              /\ ak_response.sources[i].cited <=> (i \in CitationNumbers)
        /\ ak_response.citations = ak_request.reply.citations

\* the answer cites 0, 2 and 4 over a capped context of two fragments
\* shorter than the hits: the second source is cited and the first is not
Witness_C28 ==
    /\ ak_pc = "responded"
    /\ ak_response.status = 200
    /\ CitationNumbers = {0, 2, 4}
    /\ Len(ak_context) = 2
    /\ Len(NonEmptyRanks) = 3
    /\ ak_response.sources[2].cited
    /\ ~ak_response.sources[1].cited

-----------------------------------------------------------------------------
(* Claims about the status a run of the ingestion leaves, checked under    *)
(* SpecIngestion                                                           *)

\* the last call of run_document_ingestion was for a document of the table
RanOnDocument ==
    /\ dg_run.outcome.status # "none"
    /\ dg_run.document_id \in DOMAIN dg_documents

\* C29: when run_document_ingestion ends for a document that exists, the
\* document is PROCESSED or FAILED, as the run went, and is not left
\* PROCESSING.
Claim_C29 ==
    RanOnDocument =>
        /\ dg_documents[dg_run.document_id].status \in {"processed", "failed"}
        /\ dg_documents[dg_run.document_id].status = dg_run.outcome.status

-----------------------------------------------------------------------------
(* Claims about the tenant scope of the deduplication, checked under       *)
(* SpecIngestion                                                           *)

\* the rows of chunk_hashes of one tenant
OwnRows(hashes, tenant_id) == SelectSeq(hashes, LAMBDA row : row.tenant_id = tenant_id)

\* a run for a document of the table with the names of the module bound
\* leaves the outcome it would leave if chunk_hashes held the rows of the
\* document's tenant alone
IngestIgnoresOtherTenants ==
    \A document_id \in DOMAIN dg_documents, file_exists \in BOOLEAN, embed_ok \in BOOLEAN :
        Ingest(document_id, TRUE, file_exists, embed_ok) =>
            dg_run'.outcome =
                run_document_ingestion(document_id, dg_documents[document_id],
                                       file_exists, embed_ok,
                                       OwnRows(dg_hashes, dg_documents[document_id].tenant_id))

=============================================================================
